---- MODULE Spec2Model ----
(***************************************************************************)
(* A model of the Monkey front end of okuzawats/writing-an-interpreter-in-go *)
(* : the lexer (lexer/lexer.go), the token table (token/token.go), the     *)
(* Pratt parser (parser/parser.go) and the AST printer (package ast); and  *)
(* of the values (object/object.go) with the evaluator and its             *)
(* environments, which are modelled after the specification.               *)
(*                                                                         *)
(* A byte is a one-character string; a Go string is a sequence of bytes.   *)
(* Go indexes from 0, TLA+ sequences from 1: input[i] in Go is input[i+1]. *)
(* An index or a slice of the input out of range is a panic of Go, which   *)
(* the lexer carries as its field panicked.                                *)
(***************************************************************************)
EXTENDS Integers, Sequences, FiniteSets, TLC

VARIABLES
    l,        \* the Lexer (shared by pointer with the Parser once it exists)
    toks,     \* the tokens the caller's own calls of NextToken returned, in order
    p,        \* the Parser: l, errors, curToken, peekToken
    program,  \* program.Statements of the Program ParseProgram is building
    pc,       \* where the caller is: "lexer", "parsing", "returnLoop", "done",
              \* "eval", "evaluated"
    ev        \* the evaluation: the heap of environments, the trace, the
              \* result so far, the index of the next statement of the program

vars == <<l, toks, p, program, pc, ev>>

(***************************************************************************)
(* Bounds of the model.                                                    *)
(***************************************************************************)
\* the longest input of the byte-level family of the lexer
MaxLen == 3
\* how many bytes past the end of the input the lexer's cursor is followed
MaxOverrun == 3
\* the most infix operators in an input of the operator-chain family
MaxOps == 2
\* the most statements in an input of the statement-sequence family
MaxStmts == 2
\* the most words in an input of the word-sequence family
MaxWords == 3
\* parameters in a generated parameter list
MaxParams == 2

(***************************************************************************)
(* Bytes.                                                                  *)
(***************************************************************************)
\* the byte 0, which readChar also uses as its end-of-input mark
NUL == "NUL"
Quote == "\""

Letters ==
    {"a","b","c","d","e","f","g","h","i","j","k","l","m",
     "n","o","p","q","r","s","t","u","v","w","x","y","z",
     "A","B","C","D","E","F","G","H","I","J","K","L","M",
     "N","O","P","Q","R","S","T","U","V","W","X","Y","Z","_"}

Digits == {"0","1","2","3","4","5","6","7","8","9"}

Whitespace == {" ", "\t", "\n", "\r"}

\* s[a:b] of Go
Slice(s, a, b) == SubSeq(s, a + 1, b)

\* x := the value of a call; F is the code that follows the call
With(x, F(_)) == F(x)

(***************************************************************************)
(* package token                                                           *)
(***************************************************************************)
ILLEGAL == "ILLEGAL"
EOF == "EOF"
IDENT == "IDENT"
INT == "INT"
TOK_STRING == "STRING"
ASSIGN == "="
PLUS == "+"
MINUS == "-"
BANG == "!"
ASTERISK == "*"
SLASH == "/"
LT == "<"
GT == ">"
EQ == "=="
NOT_EQ == "!="
COMMA == ","
SEMICOLON == ";"
LPAREN == "("
RPAREN == ")"
LBRACE == "{"
RBRACE == "}"
LBRACKET == "["
RBRACKET == "]"
FUNCTION == "FUNCTION"
TOK_LET == "LET"
TOK_TRUE == "TRUE"
TOK_FALSE == "FALSE"
TOK_IF == "IF"
TOK_ELSE == "ELSE"
RETURN == "RETURN"

keywords ==
    (<<"f","n">> :> FUNCTION) @@
    (<<"l","e","t">> :> TOK_LET) @@
    (<<"t","r","u","e">> :> TOK_TRUE) @@
    (<<"f","a","l","s","e">> :> TOK_FALSE) @@
    (<<"i","f">> :> TOK_IF) @@
    (<<"e","l","s","e">> :> TOK_ELSE) @@
    (<<"r","e","t","u","r","n">> :> RETURN)

LookupIdentifier(identifier) ==
    IF identifier \in DOMAIN keywords THEN keywords[identifier] ELSE IDENT

Token(type, literal) == [Type |-> type, Literal |-> literal]

(***************************************************************************)
(* package lexer                                                           *)
(***************************************************************************)
\* An index or a slice of l.input out of range is a run-time panic of Go:
\* the call of NextToken does not return.  The lexer is marked, and its ch
\* is 0, which ends every loop of the lexer.
panic(lx) == [lx EXCEPT !.panicked = TRUE, !.ch = NUL]

\* a slip that takes len(input) for the index of the last byte
readChar_PastEnd(lx) ==
    IF lx.readPosition > Len(lx.input)
    THEN [lx EXCEPT !.ch = NUL,
                    !.position = lx.readPosition,
                    !.readPosition = lx.readPosition + 1]
    ELSE IF lx.readPosition < 0 \/ lx.readPosition >= Len(lx.input)
    THEN panic(lx)
    ELSE [lx EXCEPT !.ch = lx.input[lx.readPosition + 1],
                    !.position = lx.readPosition,
                    !.readPosition = lx.readPosition + 1]

readChar(lx) ==
    IF lx.readPosition >= Len(lx.input)
    THEN [lx EXCEPT !.ch = NUL,
                    !.position = lx.readPosition,
                    !.readPosition = lx.readPosition + 1]
    ELSE IF lx.readPosition < 0 \/ lx.readPosition >= Len(lx.input)
    THEN panic(lx)
    ELSE [lx EXCEPT !.ch = lx.input[lx.readPosition + 1],
                    !.position = lx.readPosition,
                    !.readPosition = lx.readPosition + 1]

LexerNew(input) ==
    readChar([input |-> input, position |-> 0, readPosition |-> 0, ch |-> NUL,
              panicked |-> FALSE])

\* the byte, and whether the index was in range
peekChar(lx) ==
    IF lx.readPosition >= Len(lx.input)
    THEN [ch |-> NUL, ok |-> TRUE]
    ELSE IF lx.readPosition < 0 \/ lx.readPosition >= Len(lx.input)
    THEN [ch |-> NUL, ok |-> FALSE]
    ELSE [ch |-> lx.input[lx.readPosition + 1], ok |-> TRUE]

\* l.input[a:b] as the literal read
slice(lx, a, b) ==
    IF 0 <= a /\ a <= b /\ b <= Len(lx.input)
    THEN [l |-> lx, lit |-> Slice(lx.input, a, b)]
    ELSE [l |-> panic(lx), lit |-> <<>>]

\* a slip that takes digits for letters
isLetter_OrDigit(ch) == ch \in Letters \cup Digits

isLetter(ch) == ch \in Letters

isDigit(ch) == ch \in Digits

RECURSIVE skipWhitespace(_)
\* a slip that forgets the newline
skipWhitespace_NoNewline(lx) ==
    IF lx.ch = " " \/ lx.ch = "\t" \/ lx.ch = "\r"
    THEN skipWhitespace(readChar(lx))
    ELSE lx

skipWhitespace(lx) ==
    IF lx.ch = " " \/ lx.ch = "\t" \/ lx.ch = "\n" \/ lx.ch = "\r"
    THEN skipWhitespace(readChar(lx))
    ELSE lx

newToken(tokenType, ch) == Token(tokenType, <<ch>>)

\* the loop of readIdentifier
RECURSIVE readLetters(_)
readLetters(lx) == IF isLetter(lx.ch) THEN readLetters(readChar(lx)) ELSE lx

readIdentifier(lx) ==
    With(readLetters(lx), LAMBDA lx2 : slice(lx2, lx.position, lx2.position))

\* the loop of readNumber
RECURSIVE readDigits(_)
readDigits(lx) == IF isDigit(lx.ch) THEN readDigits(readChar(lx)) ELSE lx

readNumber(lx) ==
    With(readDigits(lx), LAMBDA lx2 : slice(lx2, lx.position, lx2.position))

\* the loop of readString: readChar, then leave on a quote or on the byte 0
RECURSIVE readToQuote(_)
readToQuote(lx) ==
    With(readChar(lx), LAMBDA lx2 :
        IF lx2.ch = Quote \/ lx2.ch = NUL THEN lx2 ELSE readToQuote(lx2))

readString(lx) ==
    With(readToQuote(lx), LAMBDA lx2 : slice(lx2, lx.position + 1, lx2.position))

\* the one-byte tokens of NextToken's switch
SingleByte ==
    ("+" :> PLUS) @@ ("-" :> MINUS) @@ ("/" :> SLASH) @@ ("*" :> ASTERISK) @@
    ("<" :> LT) @@ (">" :> GT) @@ (";" :> SEMICOLON) @@ ("(" :> LPAREN) @@
    (")" :> RPAREN) @@ ("," :> COMMA) @@ ("{" :> LBRACE) @@ ("}" :> RBRACE) @@
    ("[" :> LBRACKET) @@ ("]" :> RBRACKET)

\* a slip that leaves the second byte of "==" and "!=" unread
twoByteToken_OneRead(lx, two, one) ==
    IF peekChar(lx).ch = "="
    THEN [l |-> readChar(lx), tok |-> Token(two, <<lx.ch, "=">>)]
    ELSE [l |-> readChar(lx), tok |-> newToken(one, lx.ch)]

\* "==" and "!=": one byte of lookahead, then the token of two bytes or of one
twoByteToken(lx, two, one) ==
    IF ~peekChar(lx).ok
    THEN [l |-> panic(lx), tok |-> newToken(one, lx.ch)]
    ELSE IF peekChar(lx).ch = "="
    THEN With(readChar(lx), LAMBDA lx2 :
             [l |-> readChar(lx2), tok |-> Token(two, <<lx.ch, lx2.ch>>)])
    ELSE [l |-> readChar(lx), tok |-> newToken(one, lx.ch)]

\* a slip that builds the EOF token with newToken, as the one-byte tokens are
eofToken_OfByte(lx) == newToken(EOF, lx.ch)

\* case 0: the token of the end of the input
eofToken(lx) == Token(EOF, <<>>)

\* NextToken after its skipWhitespace
scan(lx) ==
    CASE lx.ch = "=" -> twoByteToken(lx, EQ, ASSIGN)
      [] lx.ch = "!" -> twoByteToken(lx, NOT_EQ, BANG)
      [] lx.ch \in DOMAIN SingleByte ->
            [l |-> readChar(lx), tok |-> newToken(SingleByte[lx.ch], lx.ch)]
      [] lx.ch = Quote ->
            With(readString(lx), LAMBDA r :
                [l |-> readChar(r.l), tok |-> Token(TOK_STRING, r.lit)])
      [] lx.ch = NUL -> [l |-> readChar(lx), tok |-> eofToken(lx)]
      [] OTHER ->
            IF isLetter(lx.ch)
            THEN With(readIdentifier(lx), LAMBDA r :
                     [l |-> r.l, tok |-> Token(LookupIdentifier(r.lit), r.lit)])
            ELSE IF isDigit(lx.ch)
            THEN With(readNumber(lx), LAMBDA r :
                     [l |-> r.l, tok |-> Token(INT, r.lit)])
            ELSE [l |-> readChar(lx), tok |-> newToken(ILLEGAL, lx.ch)]

NextToken(lx) == scan(skipWhitespace(lx))

(***************************************************************************)
(* package ast: the nodes.  A node is a record whose field node names its  *)
(* Go type.  NilNode is the nil interface value (no Expression, no         *)
(* Statement); NilLetStatement is the nil *ast.LetStatement that           *)
(* parseLetStatement returns on a failed expectation: parseStatement       *)
(* returns it converted to the interface ast.Statement, and an interface   *)
(* that holds a nil pointer is not itself nil.                             *)
(***************************************************************************)
NilNode == [node |-> "nil"]
NilLetStatement == [node |-> "nil *LetStatement"]
NilBlock == [node |-> "nil *BlockStatement"]

Identifier(t) == [node |-> "Identifier", Token |-> t, Value |-> t.Literal]

(***************************************************************************)
(* package parser                                                          *)
(***************************************************************************)
LOWEST == 1
EQUALS == 2
LESSGREATER == 3
SUM == 4
PRODUCT == 5
PREFIX == 6
CALL == 7

\* a slip that gives "*" the level of "+"
precedences_StarAsSum ==
    (EQ :> EQUALS) @@ (NOT_EQ :> EQUALS) @@
    (LT :> LESSGREATER) @@ (GT :> LESSGREATER) @@
    (PLUS :> SUM) @@ (MINUS :> SUM) @@
    (SLASH :> PRODUCT) @@ (ASTERISK :> SUM) @@
    (LPAREN :> CALL)

precedences ==
    (EQ :> EQUALS) @@ (NOT_EQ :> EQUALS) @@
    (LT :> LESSGREATER) @@ (GT :> LESSGREATER) @@
    (PLUS :> SUM) @@ (MINUS :> SUM) @@
    (SLASH :> PRODUCT) @@ (ASTERISK :> PRODUCT) @@
    (LPAREN :> CALL)

\* the token types New registers a prefix parse function for
prefixParseFns ==
    {IDENT, INT, TOK_STRING, BANG, MINUS, TOK_TRUE, TOK_FALSE, LPAREN, TOK_IF,
     FUNCTION}

\* the token types New registers an infix parse function for
infixParseFns == {PLUS, MINUS, SLASH, ASTERISK, EQ, NOT_EQ, LT, GT, LPAREN}

peekPrecedence(ps) ==
    IF ps.peekToken.Type \in DOMAIN precedences
    THEN precedences[ps.peekToken.Type]
    ELSE LOWEST

curPrecedence(ps) ==
    IF ps.curToken.Type \in DOMAIN precedences
    THEN precedences[ps.curToken.Type]
    ELSE LOWEST

\* One step of the token window.  ps.hung marks that control is inside the
\* loop of parseReturnStatement with the input exhausted, which it never
\* leaves: nothing that follows that loop in the code runs, so the parser
\* is left as it is there.
nextToken(ps) ==
    IF ps.hung
    THEN ps
    ELSE With(NextToken(ps.l), LAMBDA r :
             [ps EXCEPT !.curToken = ps.peekToken, !.peekToken = r.tok, !.l = r.l])

appendError(ps, msg) ==
    IF ps.hung THEN ps ELSE [ps EXCEPT !.errors = Append(ps.errors, msg)]

ParserNew(lx) ==
    nextToken(nextToken(
        [l |-> lx, errors |-> <<>>, curToken |-> Token("", <<>>),
         peekToken |-> Token("", <<>>), hung |-> FALSE]))

curTokenIs(ps, t) == ps.curToken.Type = t

peekTokenIs(ps, t) == ps.peekToken.Type = t

peekErrorMsg(t, got) == <<"expected next token to be ", t, ", got ", got, " instead">>

peekError(ps, t) == appendError(ps, peekErrorMsg(t, ps.peekToken.Type))

expectPeek(ps, t) ==
    IF peekTokenIs(ps, t)
    THEN [p |-> nextToken(ps), ok |-> TRUE]
    ELSE [p |-> peekError(ps, t), ok |-> FALSE]

noPrefixParseFnErrorMsg(t) == <<"no prefix parse function for ", t, " found">>

\* a slip that records nothing when no prefix parse function is found
noPrefixParseFnError_Silent(ps, t) == ps

noPrefixParseFnError(ps, t) == appendError(ps, noPrefixParseFnErrorMsg(t))

(***************************************************************************)
(* strconv.ParseInt(s, 0, 64) on a run of digits: base 0 reads a leading   *)
(* "0" as the octal prefix.  DigitValue and the range test work on the     *)
(* digits, since the values can exceed what TLC's integers hold.           *)
(***************************************************************************)
DigitValue ==
    ("0" :> 0) @@ ("1" :> 1) @@ ("2" :> 2) @@ ("3" :> 3) @@ ("4" :> 4) @@
    ("5" :> 5) @@ ("6" :> 6) @@ ("7" :> 7) @@ ("8" :> 8) @@ ("9" :> 9)

RECURSIVE stripZeros(_)
stripZeros(ds) ==
    IF Len(ds) > 1 /\ ds[1] = "0" THEN stripZeros(Tail(ds)) ELSE ds

\* a <= b for two numerals of the same length
RECURSIVE numeralLeq(_, _)
numeralLeq(a, b) ==
    IF a = <<>> THEN TRUE
    ELSE IF DigitValue[a[1]] # DigitValue[b[1]]
         THEN DigitValue[a[1]] < DigitValue[b[1]]
         ELSE numeralLeq(Tail(a), Tail(b))

\* 1<<63 - 1 in base 10 and in base 8
MaxInt64Dec ==
    <<"9","2","2","3","3","7","2","0","3","6","8","5","4","7","7","5","8","0","7">>
MaxInt64Oct ==
    <<"7","7","7","7","7","7","7","7","7","7","7","7","7","7","7","7","7","7","7","7","7">>

inRange(ds, max) ==
    LET n == stripZeros(ds)
    IN  Len(n) < Len(max) \/ (Len(n) = Len(max) /\ numeralLeq(n, max))

\* An int64 is held as its decimal numeral without leading zeros (<<>> for
\* 0 while it is computed), since TLC's integers have 32 bits.
DigitChar == <<"0", "1", "2", "3", "4", "5", "6", "7", "8", "9">>

RECURSIVE toNumeral(_)
toNumeral(n) ==
    IF n = 0 THEN <<>> ELSE toNumeral(n \div 10) \o <<DigitChar[(n % 10) + 1]>>

\* acc * m + carry
RECURSIVE mulAdd(_, _, _)
mulAdd(acc, m, carry) ==
    IF acc = <<>> THEN toNumeral(carry)
    ELSE With(DigitValue[acc[Len(acc)]] * m + carry, LAMBDA v :
             mulAdd(SubSeq(acc, 1, Len(acc) - 1), m, v \div 10)
                \o <<DigitChar[(v % 10) + 1]>>)

RECURSIVE numeralValue(_, _, _)
numeralValue(ds, base, acc) ==
    IF ds = <<>> THEN (IF acc = <<>> THEN <<"0">> ELSE acc)
    ELSE numeralValue(Tail(ds), base, mulAdd(acc, base, DigitValue[ds[1]]))

ParseInt(s) ==
    IF Len(s) > 1 /\ s[1] = "0"
    THEN LET ds == Tail(s)
         IN  IF \E i \in 1..Len(ds) : DigitValue[ds[i]] > 7
             THEN [ok |-> FALSE, value |-> <<"0">>]
             ELSE IF ~inRange(ds, MaxInt64Oct)
             THEN [ok |-> FALSE, value |-> <<"0">>]
             ELSE [ok |-> TRUE, value |-> numeralValue(ds, 8, <<>>)]
    ELSE IF ~inRange(s, MaxInt64Dec)
         THEN [ok |-> FALSE, value |-> <<"0">>]
         ELSE [ok |-> TRUE, value |-> numeralValue(s, 10, <<>>)]

\* fmt.Sprintf("could not parse %q as integer", lit): %q quotes the digits
couldNotParseMsg(lit) ==
    <<"could not parse ", <<Quote>> \o lit \o <<Quote>>, " as integer">>

(***************************************************************************)
(* The parse functions.  Each returns the parser after the call (p) and    *)
(* the node the Go function returns (node).                                *)
(***************************************************************************)
RECURSIVE parseStatement(_)
RECURSIVE parseExpression(_, _)
RECURSIVE parseExpressionLoop(_, _, _)
RECURSIVE parseBlockLoop(_, _)
RECURSIVE parseCallArgumentsLoop(_, _)
RECURSIVE parseFunctionParametersLoop(_, _)
RECURSIVE skipToSemicolon(_)

parseIdentifier(ps) == [p |-> ps, node |-> Identifier(ps.curToken)]

parseIntegerLiteral(ps) ==
    With(ParseInt(ps.curToken.Literal), LAMBDA r :
        IF ~r.ok
        THEN [p |-> appendError(ps, couldNotParseMsg(ps.curToken.Literal)),
              node |-> NilNode]
        ELSE [p |-> ps,
              node |-> [node |-> "IntegerLiteral", Token |-> ps.curToken,
                        Value |-> r.value]])

parseStringLiteral(ps) ==
    [p |-> ps,
     node |-> [node |-> "StringLiteral", Token |-> ps.curToken,
               Value |-> ps.curToken.Literal]]

parseBoolean(ps) ==
    [p |-> ps,
     node |-> [node |-> "Boolean", Token |-> ps.curToken,
               Value |-> curTokenIs(ps, TOK_TRUE)]]

\* a slip that parses the operand at LOWEST
parsePrefixExpression_Lowest(ps) ==
    With(parseExpression(nextToken(ps), LOWEST), LAMBDA r :
        [p |-> r.p,
         node |-> [node |-> "PrefixExpression", Token |-> ps.curToken,
                   Operator |-> ps.curToken.Literal, Right |-> r.node]])

parsePrefixExpression(ps) ==
    With(parseExpression(nextToken(ps), PREFIX), LAMBDA r :
        [p |-> r.p,
         node |-> [node |-> "PrefixExpression", Token |-> ps.curToken,
                   Operator |-> ps.curToken.Literal, Right |-> r.node]])

parseGroupedExpression(ps) ==
    With(parseExpression(nextToken(ps), LOWEST), LAMBDA exp :
    With(expectPeek(exp.p, RPAREN), LAMBDA e :
        IF ~e.ok THEN [p |-> e.p, node |-> NilNode]
        ELSE [p |-> e.p, node |-> exp.node]))

\* the loop of parseBlockStatements
parseBlockLoop(ps, stmts) ==
    IF ~curTokenIs(ps, RBRACE) /\ ~curTokenIs(ps, EOF)
    THEN With(parseStatement(ps), LAMBDA r :
             parseBlockLoop(nextToken(r.p),
                            IF r.node # NilNode THEN Append(stmts, r.node) ELSE stmts))
    ELSE [p |-> ps, stmts |-> stmts]

parseBlockStatements(ps) ==
    With(parseBlockLoop(nextToken(ps), <<>>), LAMBDA r :
        [p |-> r.p,
         node |-> [node |-> "BlockStatement", Token |-> ps.curToken,
                   Statements |-> r.stmts]])

IfExpression(tok, cond, cons, alt) ==
    [node |-> "IfExpression", Token |-> tok,
     Condition |-> cond, Consequence |-> cons, Alternative |-> alt]

parseIfExpression(ps) ==
    With(expectPeek(ps, LPAREN), LAMBDA e1 :
    IF ~e1.ok THEN [p |-> e1.p, node |-> NilNode] ELSE
    With(parseExpression(nextToken(e1.p), LOWEST), LAMBDA cond :
    With(expectPeek(cond.p, RPAREN), LAMBDA e2 :
    IF ~e2.ok THEN [p |-> e2.p, node |-> NilNode] ELSE
    With(expectPeek(e2.p, LBRACE), LAMBDA e3 :
    IF ~e3.ok THEN [p |-> e3.p, node |-> NilNode] ELSE
    With(parseBlockStatements(e3.p), LAMBDA cons :
    IF ~peekTokenIs(cons.p, TOK_ELSE)
    THEN [p |-> cons.p,
          node |-> IfExpression(ps.curToken, cond.node, cons.node, NilBlock)]
    ELSE
    With(expectPeek(nextToken(cons.p), LBRACE), LAMBDA e4 :
    IF ~e4.ok THEN [p |-> e4.p, node |-> NilNode] ELSE
    With(parseBlockStatements(e4.p), LAMBDA alt :
        [p |-> alt.p,
         node |-> IfExpression(ps.curToken, cond.node, cons.node, alt.node)])))))))

\* the loop of parseFunctionParameters
parseFunctionParametersLoop(ps, identifiers) ==
    IF peekTokenIs(ps, COMMA)
    THEN With(nextToken(nextToken(ps)), LAMBDA ps2 :
             parseFunctionParametersLoop(ps2,
                 Append(identifiers, Identifier(ps2.curToken))))
    ELSE [p |-> ps, identifiers |-> identifiers]

\* nil marks the nil slice the function returns on a missing ")"
parseFunctionParameters(ps) ==
    IF peekTokenIs(ps, RPAREN)
    THEN [p |-> nextToken(ps), identifiers |-> <<>>, nil |-> FALSE]
    ELSE
    With(nextToken(ps), LAMBDA ps1 :
    With(parseFunctionParametersLoop(ps1, <<Identifier(ps1.curToken)>>), LAMBDA r :
    With(expectPeek(r.p, RPAREN), LAMBDA e :
        IF ~e.ok
        THEN [p |-> e.p, identifiers |-> <<>>, nil |-> TRUE]
        ELSE [p |-> e.p, identifiers |-> r.identifiers, nil |-> FALSE])))

parseFunctionLiteral(ps) ==
    With(expectPeek(ps, LPAREN), LAMBDA e1 :
    IF ~e1.ok THEN [p |-> e1.p, node |-> NilNode] ELSE
    With(parseFunctionParameters(e1.p), LAMBDA params :
    With(expectPeek(params.p, LBRACE), LAMBDA e2 :
    IF ~e2.ok THEN [p |-> e2.p, node |-> NilNode] ELSE
    With(parseBlockStatements(e2.p), LAMBDA body :
        [p |-> body.p,
         node |-> [node |-> "FunctionLiteral", Token |-> ps.curToken,
                   Parameters |-> params.identifiers, Body |-> body.node]]))))

\* a slip that parses the right operand one level lower
parseInfixExpression_Lower(ps, left) ==
    With(parseExpression(nextToken(ps), curPrecedence(ps) - 1), LAMBDA r :
        [p |-> r.p,
         node |-> [node |-> "InfixExpression", Token |-> ps.curToken,
                   Left |-> left, Operator |-> ps.curToken.Literal,
                   Right |-> r.node]])

parseInfixExpression(ps, left) ==
    With(parseExpression(nextToken(ps), curPrecedence(ps)), LAMBDA r :
        [p |-> r.p,
         node |-> [node |-> "InfixExpression", Token |-> ps.curToken,
                   Left |-> left, Operator |-> ps.curToken.Literal,
                   Right |-> r.node]])

\* the loop of parseCallArguments
parseCallArgumentsLoop(ps, args) ==
    IF peekTokenIs(ps, COMMA)
    THEN With(parseExpression(nextToken(nextToken(ps)), LOWEST), LAMBDA r :
             parseCallArgumentsLoop(r.p, Append(args, r.node)))
    ELSE [p |-> ps, args |-> args]

\* nil marks the nil slice the function returns on a missing ")"
parseCallArguments(ps) ==
    IF peekTokenIs(ps, RPAREN)
    THEN [p |-> nextToken(ps), args |-> <<>>, nil |-> FALSE]
    ELSE
    With(parseExpression(nextToken(ps), LOWEST), LAMBDA first :
    With(parseCallArgumentsLoop(first.p, <<first.node>>), LAMBDA r :
    With(expectPeek(r.p, RPAREN), LAMBDA e :
        IF ~e.ok
        THEN [p |-> e.p, args |-> <<>>, nil |-> TRUE]
        ELSE [p |-> e.p, args |-> r.args, nil |-> FALSE])))

parseCallExpression(ps, function) ==
    With(parseCallArguments(ps), LAMBDA r :
        [p |-> r.p,
         node |-> [node |-> "CallExpression", Token |-> ps.curToken,
                   Function |-> function, Arguments |-> r.args]])

\* p.prefixParseFns[p.curToken.Type]()
prefix(ps) ==
    CASE ps.curToken.Type = IDENT -> parseIdentifier(ps)
      [] ps.curToken.Type = INT -> parseIntegerLiteral(ps)
      [] ps.curToken.Type = TOK_STRING -> parseStringLiteral(ps)
      [] ps.curToken.Type \in {BANG, MINUS} -> parsePrefixExpression(ps)
      [] ps.curToken.Type \in {TOK_TRUE, TOK_FALSE} -> parseBoolean(ps)
      [] ps.curToken.Type = LPAREN -> parseGroupedExpression(ps)
      [] ps.curToken.Type = TOK_IF -> parseIfExpression(ps)
      [] ps.curToken.Type = FUNCTION -> parseFunctionLiteral(ps)

\* p.infixParseFns[p.curToken.Type](left), after the nextToken of the loop
infix(ps, left) ==
    IF ps.curToken.Type = LPAREN
    THEN parseCallExpression(ps, left)
    ELSE parseInfixExpression(ps, left)

\* the loop of parseExpression
parseExpressionLoop(ps, leftExp, precedence) ==
    IF ~peekTokenIs(ps, SEMICOLON) /\ precedence < peekPrecedence(ps)
    THEN IF ps.peekToken.Type \notin infixParseFns
         THEN [p |-> ps, node |-> leftExp]
         ELSE With(infix(nextToken(ps), leftExp), LAMBDA r :
                  parseExpressionLoop(r.p, r.node, precedence))
    ELSE [p |-> ps, node |-> leftExp]

parseExpression(ps, precedence) ==
    IF ps.curToken.Type \notin prefixParseFns
    THEN [p |-> noPrefixParseFnError(ps, ps.curToken.Type), node |-> NilNode]
    ELSE With(prefix(ps), LAMBDA left :
             parseExpressionLoop(left.p, left.node, precedence))

\* `if p.peekTokenIs(token.SEMICOLON) { p.nextToken() }`
takeSemicolon(ps) == IF peekTokenIs(ps, SEMICOLON) THEN nextToken(ps) ELSE ps

parseLetStatement(ps) ==
    With(expectPeek(ps, IDENT), LAMBDA e1 :
    IF ~e1.ok THEN [p |-> e1.p, node |-> NilLetStatement] ELSE
    With(expectPeek(e1.p, ASSIGN), LAMBDA e2 :
    IF ~e2.ok THEN [p |-> e2.p, node |-> NilLetStatement] ELSE
    With(parseExpression(nextToken(e2.p), LOWEST), LAMBDA value :
        [p |-> takeSemicolon(value.p),
         node |-> [node |-> "LetStatement", Token |-> ps.curToken,
                   Name |-> Identifier(e1.p.curToken), Value |-> value.node]])))

\* The input is exhausted: the cursor is past the last byte, so readChar
\* keeps ch at 0 and NextToken returns EOF from here on.
exhausted(ps) ==
    /\ curTokenIs(ps, EOF)
    /\ peekTokenIs(ps, EOF)
    /\ ps.l.position >= Len(ps.l.input)

\* a slip that takes the ";" only when it is the next token, as the other
\* statements do
skipToSemicolon_Optional(ps) ==
    IF peekTokenIs(ps, SEMICOLON) THEN nextToken(ps) ELSE ps

\* the loop of parseReturnStatement: for !p.curTokenIs(token.SEMICOLON)
skipToSemicolon(ps) ==
    IF curTokenIs(ps, SEMICOLON) \/ ps.hung THEN ps
    ELSE IF exhausted(ps) THEN [ps EXCEPT !.hung = TRUE]
    ELSE skipToSemicolon(nextToken(ps))

parseReturnStatement(ps) ==
    With(parseExpression(nextToken(ps), LOWEST), LAMBDA value :
        [p |-> skipToSemicolon(value.p),
         node |-> [node |-> "ReturnStatement", Token |-> ps.curToken,
                   ReturnValue |-> value.node]])

parseExpressionStatement(ps) ==
    With(parseExpression(ps, LOWEST), LAMBDA exp :
        [p |-> takeSemicolon(exp.p),
         node |-> [node |-> "ExpressionStatement", Token |-> ps.curToken,
                   Expression |-> exp.node]])

parseStatement(ps) ==
    CASE ps.curToken.Type = TOK_LET -> parseLetStatement(ps)
      [] ps.curToken.Type = RETURN -> parseReturnStatement(ps)
      [] OTHER -> parseExpressionStatement(ps)

\* the loop of ParseProgram, run to its end
RECURSIVE ParseProgramLoop(_, _)
ParseProgramLoop(ps, stmts) ==
    IF ps.curToken.Type # EOF /\ ~ps.hung
    THEN With(parseStatement(ps), LAMBDA r :
             ParseProgramLoop(nextToken(r.p),
                              IF r.node # NilNode THEN Append(stmts, r.node) ELSE stmts))
    ELSE [p |-> ps, Statements |-> stmts]

ParseProgram(ps) == ParseProgramLoop(ps, <<>>)

(***************************************************************************)
(* package ast: String().  A Go string is a sequence of bytes here too.    *)
(* A call of a method on a nil node dereferences nil and panics; Panic     *)
(* stands for the output of a String() that did.                           *)
(***************************************************************************)
Panic == <<"PANIC">>

RECURSIVE Concat(_)
Concat(ss) == IF ss = <<>> THEN <<>> ELSE Head(ss) \o Concat(Tail(ss))

\* strings.Join(ss, sep)
RECURSIVE Join(_, _)
Join(ss, sep) ==
    IF ss = <<>> THEN <<>>
    ELSE IF Len(ss) = 1 THEN ss[1]
    ELSE ss[1] \o sep \o Join(Tail(ss), sep)

RECURSIVE String(_)

\* String() of each element of a slice of nodes
Strings(ns) == [i \in 1..Len(ns) |-> String(ns[i])]

LetStatementString(n) ==
    n.Token.Literal \o <<" ">> \o String(n.Name) \o <<" ", "=", " ">>
      \o (IF n.Value # NilNode THEN String(n.Value) ELSE <<>>) \o <<";">>

IdentifierString(n) == n.Value

ReturnStatementString(n) ==
    n.Token.Literal \o <<" ">>
      \o (IF n.ReturnValue # NilNode THEN String(n.ReturnValue) ELSE <<>>)
      \o <<";">>

ExpressionStatementString(n) ==
    IF n.Expression # NilNode THEN String(n.Expression) ELSE <<>>

IntegerLiteralString(n) == n.Token.Literal

PrefixExpressionString(n) ==
    <<"(">> \o n.Operator \o String(n.Right) \o <<")">>

\* a slip that writes the operands in the wrong order
InfixExpressionString_Swapped(n) ==
    <<"(">> \o String(n.Right) \o <<" ">> \o n.Operator \o <<" ">>
      \o String(n.Left) \o <<")">>

InfixExpressionString(n) ==
    <<"(">> \o String(n.Left) \o <<" ">> \o n.Operator \o <<" ">>
      \o String(n.Right) \o <<")">>

BooleanString(n) == n.Token.Literal

IfExpressionString(n) ==
    <<"i", "f">> \o String(n.Condition) \o <<" ">> \o String(n.Consequence)
      \o (IF n.Alternative # NilBlock
          THEN <<"e", "l", "s", "e">> \o <<" ">> \o String(n.Alternative)
          ELSE <<>>)

BlockStatementString(n) == Concat(Strings(n.Statements))

FunctionLiteralString(n) ==
    n.Token.Literal \o <<"(">> \o Join(Strings(n.Parameters), <<",", " ">>)
      \o <<")", " ">> \o String(n.Body)

\* CallExpression.String, from the description of the printer
CallExpressionString(n) ==
    String(n.Function) \o <<"(">> \o Join(Strings(n.Arguments), <<",", " ">>)
      \o <<")">>

\* StringLiteral.String, from the description of the printer
StringLiteralString(n) == n.Token.Literal

\* n.String(), by the dynamic type of n
String(n) ==
    CASE n.node = "LetStatement" -> LetStatementString(n)
      [] n.node = "ReturnStatement" -> ReturnStatementString(n)
      [] n.node = "ExpressionStatement" -> ExpressionStatementString(n)
      [] n.node = "Identifier" -> IdentifierString(n)
      [] n.node = "IntegerLiteral" -> IntegerLiteralString(n)
      [] n.node = "Boolean" -> BooleanString(n)
      [] n.node = "PrefixExpression" -> PrefixExpressionString(n)
      [] n.node = "InfixExpression" -> InfixExpressionString(n)
      [] n.node = "IfExpression" -> IfExpressionString(n)
      [] n.node = "BlockStatement" -> BlockStatementString(n)
      [] n.node = "FunctionLiteral" -> FunctionLiteralString(n)
      [] n.node = "CallExpression" -> CallExpressionString(n)
      [] n.node = "StringLiteral" -> StringLiteralString(n)
      [] OTHER -> Panic

\* Program.String
ProgramString(stmts) == Concat(Strings(stmts))

(***************************************************************************)
(* package object: the values.  An Object is a record whose field Type is  *)
(* what its method Type() returns.  The evaluator has one Boolean of each  *)
(* value and one Null, which it hands out by pointer; here two objects are *)
(* the same object when they are equal.                                    *)
(***************************************************************************)
INTEGER_OBJ == "INTEGER"
BOOLEAN_OBJ == "BOOLEAN"
STRING_OBJ == "STRING"
FUNCTION_OBJ == "FUNCTION"
NULL_OBJ == "NULL"
RETURN_VALUE_OBJECT == "RETURN_VALUE"
ERROR_OBJ == "ERROR"

Integer(n) == [Type |-> INTEGER_OBJ, Value |-> n]

Boolean(b) == [Type |-> BOOLEAN_OBJ, Value |-> b]

StringObj(s) == [Type |-> STRING_OBJ, Value |-> s]

Function(parameters, body, env) ==
    [Type |-> FUNCTION_OBJ, Parameters |-> parameters, Body |-> body, Env |-> env]

ReturnValue(obj) == [Type |-> RETURN_VALUE_OBJECT, Value |-> obj]

Error(message) == [Type |-> ERROR_OBJ, Message |-> message]

Null == [Type |-> NULL_OBJ]

(***************************************************************************)
(* The environments.  The evaluator and the Environment that               *)
(* object.Function points to are not among the sources at hand: they are   *)
(* modelled after the specification's sections 3, 4.4 and 4.5.             *)
(*                                                                         *)
(* Environments are shared by reference, so they live in a heap: a         *)
(* sequence of frames, an environment being the index of its frame.  A     *)
(* frame is a store from names to values and the index of its outer        *)
(* frame, NoEnv for none.                                                  *)
(***************************************************************************)
NoEnv == 0

\* the environment of the program: the frame at index 1 of the heap
RootEnv == 1

NewEnclosedEnvironment(outer) == [store |-> <<>>, outer |-> outer]

\* env.get(name): the value, and whether there is one
RECURSIVE get(_, _, _)
get(heap, env, name) ==
    IF name \in DOMAIN heap[env].store
    THEN [obj |-> heap[env].store[name], ok |-> TRUE]
    ELSE IF heap[env].outer # NoEnv
    THEN get(heap, heap[env].outer, name)
    ELSE [obj |-> Null, ok |-> FALSE]

\* the store with name bound to obj
bind(store, name, obj) ==
    [n \in DOMAIN store \cup {name} |-> IF n = name THEN obj ELSE store[n]]

\* a slip that writes the frame that already binds the name, if one does
RECURSIVE set_WhereBound(_, _, _, _)
set_WhereBound(heap, env, name, obj) ==
    IF name \notin DOMAIN heap[env].store /\ heap[env].outer # NoEnv
       /\ get(heap, heap[env].outer, name).ok
    THEN set_WhereBound(heap, heap[env].outer, name, obj)
    ELSE [heap EXCEPT ![env].store = bind(@, name, obj)]

\* env.set(name, obj)
set(heap, env, name, obj) == [heap EXCEPT ![env].store = bind(@, name, obj)]

(***************************************************************************)
(* The evaluator.  An evaluation threads es: the heap of environments and  *)
(* the trace of the evaluation, which records each eval as it begins       *)
(* ("enter") and as it returns ("exit", with the value returned, and for   *)
(* a block the number of its statements left unevaluated).  The            *)
(* invocation of a function is traced as a node of its own, "Function",    *)
(* between the evaluation of the arguments and the return of the call,     *)
(* with the frame of the call and the heap before and after it.            *)
(***************************************************************************)
enter(es, kind) ==
    [es EXCEPT !.trace = Append(@, [e |-> "enter", node |-> kind])]

exit(r, kind) ==
    [obj |-> r.obj,
     es |-> [r.es EXCEPT !.trace =
                Append(@, [e |-> "exit", node |-> kind, obj |-> r.obj,
                           rest |-> IF "rest" \in DOMAIN r THEN r.rest ELSE 0])]]

isError(obj) == obj.Type = ERROR_OBJ

\* the Integer of an IntegerLiteral; the programs evaluated keep their
\* integers within the range of the model checker's
RECURSIVE int64Of(_, _)
int64Of(ds, acc) ==
    IF ds = <<>> THEN acc ELSE int64Of(Tail(ds), acc * 10 + DigitValue[Head(ds)])

isTruthy(obj) == ~(obj.Type = NULL_OBJ \/ (obj.Type = BOOLEAN_OBJ /\ ~obj.Value))

evalPrefixExpression(operator, right) ==
    CASE operator = <<"!">> -> Boolean(~isTruthy(right))
      [] operator = <<"-">> /\ right.Type = INTEGER_OBJ -> Integer(0 - right.Value)
      [] OTHER -> Error(<<"unknown operator: ", operator, right.Type>>)

\* the quotient of Go truncates toward zero
evalIntegerInfixExpression(operator, left, right) ==
    CASE operator = <<"+">> -> Integer(left.Value + right.Value)
      [] operator = <<"-">> -> Integer(left.Value - right.Value)
      [] operator = <<"*">> -> Integer(left.Value * right.Value)
      [] operator = <<"/">> /\ right.Value # 0 ->
             With((IF left.Value < 0 THEN 0 - left.Value ELSE left.Value)
                      \div (IF right.Value < 0 THEN 0 - right.Value ELSE right.Value),
                  LAMBDA q :
                 Integer(IF (left.Value < 0) = (right.Value < 0) THEN q ELSE 0 - q))
      [] operator = <<"<">> -> Boolean(left.Value < right.Value)
      [] operator = <<">">> -> Boolean(left.Value > right.Value)
      [] operator = <<"=", "=">> -> Boolean(left.Value = right.Value)
      [] operator = <<"!", "=">> -> Boolean(left.Value # right.Value)

\* an == or != with a Boolean operand compares the two pointers
evalInfixExpression(operator, left, right) ==
    CASE left.Type = INTEGER_OBJ /\ right.Type = INTEGER_OBJ ->
             evalIntegerInfixExpression(operator, left, right)
      [] left.Type = STRING_OBJ /\ right.Type = STRING_OBJ /\ operator = <<"+">> ->
             StringObj(left.Value \o right.Value)
      [] operator = <<"=", "=">> /\ BOOLEAN_OBJ \in {left.Type, right.Type} ->
             Boolean(left.Type = right.Type /\ left.Value = right.Value)
      [] operator = <<"!", "=">> /\ BOOLEAN_OBJ \in {left.Type, right.Type} ->
             Boolean(~(left.Type = right.Type /\ left.Value = right.Value))
      [] left.Type # right.Type ->
             Error(<<"type mismatch: ", left.Type, " ", operator, " ", right.Type>>)
      [] OTHER ->
             Error(<<"unknown operator: ", left.Type, " ", operator, " ", right.Type>>)

\* a slip that lets a call hand the ReturnValue on as it is
unwrapReturnValue_Kept(obj) == obj

unwrapReturnValue(obj) ==
    IF obj.Type = RETURN_VALUE_OBJECT THEN obj.Value ELSE obj

\* the store of the frame of a call: the parameters bound to the arguments,
\* in order
RECURSIVE bindParameters(_, _, _)
bindParameters(store, parameters, args) ==
    IF parameters = <<>> \/ args = <<>> THEN store
    ELSE bindParameters(bind(store, Head(parameters).Value, Head(args)),
                        Tail(parameters), Tail(args))

RECURSIVE Eval(_, _, _)
RECURSIVE evalBlockStatement(_, _, _, _)
RECURSIVE evalExpressions(_, _, _, _)
RECURSIVE applyFunction(_, _, _)
RECURSIVE evalInfix(_, _, _)
RECURSIVE evalNode(_, _, _)

\* the statements of a block in order; result is the value of the last one
\* evaluated, Null for an empty block
evalBlockStatement(stmts, env, es, result) ==
    IF stmts = <<>> THEN [obj |-> result, es |-> es, rest |-> 0]
    ELSE With(Eval(Head(stmts), env, es), LAMBDA r :
             IF r.obj.Type \in {RETURN_VALUE_OBJECT, ERROR_OBJ}
             THEN [obj |-> r.obj, es |-> r.es, rest |-> Len(stmts) - 1]
             ELSE evalBlockStatement(Tail(stmts), env, r.es, r.obj))

\* the arguments of a call from left to right, up to the first Error
evalExpressions(exps, env, es, objs) ==
    IF exps = <<>> THEN [objs |-> objs, es |-> es, ok |-> TRUE]
    ELSE With(Eval(Head(exps), env, es), LAMBDA r :
             IF isError(r.obj)
             THEN [objs |-> <<r.obj>>, es |-> r.es, ok |-> FALSE]
             ELSE evalExpressions(Tail(exps), env, r.es, Append(objs, r.obj)))

\* the invocation: a new frame on the heap, whose outer frame is the
\* environment the function captured, and the body evaluated in it
applyFunction(fn, args, es) ==
    IF fn.Type # FUNCTION_OBJ
    THEN [obj |-> Error(<<"not a function: ", fn.Type>>), es |-> es]
    ELSE
    With([enter(es, "Function") EXCEPT
             !.heap = Append(@, [NewEnclosedEnvironment(fn.Env) EXCEPT
                       !.store = bindParameters(@, fn.Parameters, args)])],
         LAMBDA es1 :
    With(Eval(fn.Body, Len(es1.heap), es1), LAMBDA evaluated :
        [obj |-> unwrapReturnValue(evaluated.obj),
         es |-> [evaluated.es EXCEPT !.trace =
                    Append(@, [e |-> "exit", node |-> "Function",
                               obj |-> unwrapReturnValue(evaluated.obj),
                               rest |-> 0,
                               env |-> Len(es1.heap),
                               before |-> es.heap,
                               after |-> evaluated.es.heap])]]))

\* a slip that evaluates the right operand before it looks at the left one
evalInfix_BothFirst(node, env, es) ==
    With(Eval(node.Left, env, es), LAMBDA left :
    With(Eval(node.Right, env, left.es), LAMBDA right :
        IF isError(left.obj) THEN [obj |-> left.obj, es |-> right.es]
        ELSE IF isError(right.obj) THEN right
        ELSE [obj |-> evalInfixExpression(node.Operator, left.obj, right.obj),
              es |-> right.es]))

\* the left operand, then the right one
evalInfix(node, env, es) ==
    With(Eval(node.Left, env, es), LAMBDA left :
        IF isError(left.obj) THEN left
        ELSE
    With(Eval(node.Right, env, left.es), LAMBDA right :
        IF isError(right.obj) THEN right
        ELSE [obj |-> evalInfixExpression(node.Operator, left.obj, right.obj),
              es |-> right.es]))

\* the switch of eval on the type of the node
evalNode(node, env, es) ==
    CASE node.node = "ExpressionStatement" -> Eval(node.Expression, env, es)
      [] node.node = "IntegerLiteral" ->
             [obj |-> Integer(int64Of(node.Value, 0)), es |-> es]
      [] node.node = "StringLiteral" -> [obj |-> StringObj(node.Value), es |-> es]
      [] node.node = "Boolean" -> [obj |-> Boolean(node.Value), es |-> es]
      [] node.node = "PrefixExpression" ->
             With(Eval(node.Right, env, es), LAMBDA right :
                 IF isError(right.obj) THEN right
                 ELSE [obj |-> evalPrefixExpression(node.Operator, right.obj),
                       es |-> right.es])
      [] node.node = "InfixExpression" -> evalInfix(node, env, es)
      [] node.node = "BlockStatement" ->
             evalBlockStatement(node.Statements, env, es, Null)
      [] node.node = "IfExpression" ->
             With(Eval(node.Condition, env, es), LAMBDA condition :
                 IF isError(condition.obj) THEN condition
                 ELSE IF isTruthy(condition.obj)
                 THEN Eval(node.Consequence, env, condition.es)
                 ELSE IF node.Alternative # NilBlock
                 THEN Eval(node.Alternative, env, condition.es)
                 ELSE [obj |-> Null, es |-> condition.es])
      [] node.node = "ReturnStatement" ->
             With(Eval(node.ReturnValue, env, es), LAMBDA val :
                 IF isError(val.obj) THEN val
                 ELSE [obj |-> ReturnValue(val.obj), es |-> val.es])
      [] node.node = "LetStatement" ->
             With(Eval(node.Value, env, es), LAMBDA val :
                 IF isError(val.obj) THEN val
                 ELSE [obj |-> val.obj,
                       es |-> [val.es EXCEPT
                                  !.heap = set(@, env, node.Name.Value, val.obj)]])
      [] node.node = "Identifier" ->
             With(get(es.heap, env, node.Value), LAMBDA r :
                 IF r.ok THEN [obj |-> r.obj, es |-> es]
                 ELSE [obj |-> Error(<<"identifier not found: ", node.Value>>),
                       es |-> es])
      [] node.node = "FunctionLiteral" ->
             [obj |-> Function(node.Parameters, node.Body, env), es |-> es]
      [] node.node = "CallExpression" ->
             With(Eval(node.Function, env, es), LAMBDA function :
                 IF isError(function.obj) THEN function
                 ELSE
             With(evalExpressions(node.Arguments, env, function.es, <<>>),
                  LAMBDA args :
                 IF ~args.ok THEN [obj |-> args.objs[1], es |-> args.es]
                 ELSE applyFunction(function.obj, args.objs, args.es)))
      [] OTHER -> [obj |-> Null, es |-> es]

\* eval(node, env)
Eval(node, env, es) == exit(evalNode(node, env, enter(es, node.node)), node.node)

(***************************************************************************)
(* The inputs.  Sources are written as words and joined with one space.    *)
(***************************************************************************)
Src(words) == Join(words, <<" ">>)

SeqsUpTo(S, n) == UNION {[1..k -> S] : k \in 0..n}

kwLet == <<"l","e","t">>
kwReturn == <<"r","e","t","u","r","n">>
kwIf == <<"i","f">>
kwElse == <<"e","l","s","e">>
kwFn == <<"f","n">>
kwTrue == <<"t","r","u","e">>
kwFalse == <<"f","a","l","s","e">>

\* the spellings of the infix operators
InfixOps ==
    {<<"+">>, <<"-">>, <<"*">>, <<"/">>, <<"<">>, <<">">>, <<"=","=">>, <<"!","=">>}

PrefixOps == {<<"!">>, <<"-">>}

OperandNames == <<"a", "b", "c", "d", "e", "g", "h">>

Operand(i) == <<OperandNames[i]>>

\* a op1 b op2 c ...
RECURSIVE ChainWords(_, _)
ChainWords(ops, i) ==
    IF ops = <<>> THEN <<Operand(i)>>
    ELSE <<Operand(i), Head(ops)>> \o ChainWords(Tail(ops), i + 1)

ChainSrc(ops) == Src(ChainWords(ops, 1))

ChainInputs == {ChainSrc(ops) : ops \in SeqsUpTo(InfixOps, MaxOps)}

\* prefix operators, calls and groups among infix operators
PrefixSrc(pre, op) == Src(<<pre \o <<"a">>, op, <<"b">>>>)
PrefixCallSrc(pre) == pre \o <<"f", "(", "x", ")">>
GroupLeftSrc(op1, op2) ==
    Src(<<<<"(", "a">>, op1, <<"b", ")">>, op2, <<"c">>>>)
GroupRightSrc(op1, op2) ==
    Src(<<<<"a">>, op1, <<"(", "b">>, op2, <<"c", ")">>>>)

PrefixInputs ==
    {PrefixSrc(pre, op) : pre \in PrefixOps, op \in InfixOps}
      \cup {PrefixCallSrc(pre) : pre \in PrefixOps}
      \cup {GroupLeftSrc(o[1], o[2]) : o \in InfixOps \X InfixOps}
      \cup {GroupRightSrc(o[1], o[2]) : o \in InfixOps \X InfixOps}

\* statements, well formed and not
StmtFragments ==
    { Src(<<kwLet, <<"a">>, <<"=">>, <<"1", ";">>>>),
      Src(<<kwLet, <<"b">>, <<"=">>, <<"a">>, <<"+">>, <<"1">>>>),
      Src(<<kwLet, <<"=">>, <<"5", ";">>>>),
      Src(<<kwLet, <<"a">>, <<"5", ";">>>>),
      Src(<<kwReturn, <<"a", ";">>>>),
      Src(<<kwReturn, <<"a">>, <<"b", ";">>>>),
      Src(<<kwReturn, <<"a">>>>),
      <<"a", ";">>,
      <<"!">> \o kwTrue,
      Src(<<<<"-", "b">>, <<"*">>, <<"c">>>>),
      <<"f", "(", "a", ",", " ", "1", ")", ";">>,
      Src(<<kwIf, <<"(", "a", ")">>, <<"{">>, <<"b">>, <<"}">>>>),
      Src(<<kwIf, <<"(", "a">>, <<"<">>, <<"b", ")">>, <<"{">>, kwReturn, <<"a">>,
            <<"}">>, kwElse, <<"{">>, <<"b", ";">>, <<"}">>>>),
      Src(<<kwFn \o <<"(", "x", ")">>, <<"{">>, kwReturn, <<"x", ";">>, <<"}">>>>),
      Src(<<<<"(", "a">>, <<"+">>, <<"b", ")">>, <<"*">>, <<"c", ";">>>>) }

StmtInputs == {Src(ss) : ss \in SeqsUpTo(StmtFragments, MaxStmts)}

\* every sequence of a few words
Words == {kwLet, kwReturn, <<"a">>, <<"5">>, <<"=">>, <<"+">>, <<";">>}

WordInputs == {Src(ws) : ws \in SeqsUpTo(Words, MaxWords)}

\* the sample program of the language, and a string literal
SampleInputs ==
    { Src(<<kwLet, <<"a","d","d">>, <<"=">>, kwFn \o <<"(", "x", ",">>, <<"y", ")">>,
            <<"{">>, <<"x">>, <<"+">>, <<"y", ";">>, <<"}", ";">>,
            <<"a","d","d","(","5">>, <<"+">>, <<"5", ",">>,
            <<"a","d","d","(","5",",">>, <<"5", ")", ")", ";">>>>),
      <<Quote, "a", " ", "b", Quote>> }

\* a block after `if (a)` or `fn(x)`, and what follows its closing brace
BlockHeads == {kwIf \o <<" ", "(", "a", ")">>, kwFn \o <<"(", "x", ")">>}

BlockBodies ==
    { <<"b">>,
      <<"b", ";">>,
      Src(<<kwLet, <<"c">>, <<"=">>, <<"1", ";">>, <<"b">>>>),
      Src(<<kwReturn, <<"b", ";">>>>),
      Src(<<kwReturn, <<"b">>>>),
      Src(<<<<"b">>, <<"+">>>>) }

BlockTails == {<<>>, <<"c", ";">>, <<";">> \o kwLet \o <<" ", "d", " ", "=", " ", "2", ";">>}

BlockSrc(head, body, tail) == Src(<<head, <<"{">>, body, <<"}">>>>) \o tail

BlockInputs ==
    {BlockSrc(h, b, t) : h \in BlockHeads, b \in BlockBodies, t \in BlockTails}

\* integer literals about the ends of the int64 range, and with leading zeros
Zeros(n) == [i \in 1..n |-> "0"]

Pow63 ==
    <<"9","2","2","3","3","7","2","0","3","6","8","5","4","7","7","5","8","0","8">>

IntLiterals ==
    { <<"7">>, <<"0">>, <<"0","1","0">>, <<"0","8">>, <<"0","0","7">>,
      <<"9","2","2","3","3","7","2","0","3","6","8","5","4","7","7","5","8","0","7">>,
      Pow63,
      <<"1">> \o Zeros(19),
      <<"0","1">> \o Zeros(19),
      <<"0">> \o Pow63 }

IntInputs ==
    IntLiterals
      \cup {n \o <<";", " ">> \o kwLet \o <<" ", "a", " ", "=", " ">> \o n \o <<";">> :
               n \in IntLiterals}
      \cup {n \o <<" ", "+", " ", "1">> : n \in IntLiterals}

\* every beginning of a program, cut at any byte
Beginnings(src) == {SubSeq(src, 1, n) : n \in 0..Len(src)}

CutInputs ==
    UNION { Beginnings(src) : src \in {
      \* let f = fn(x, y) { if (!x) { -y } else { f(x, 1 + y) } };
      <<"l", "e", "t", " ", "f", " ", "=", " ", "f", "n", "(", "x", ",",
        " ", "y", ")", " ", "{", " ", "i", "f", " ", "(", "!", "x", ")",
        " ", "{", " ", "-", "y", " ", "}", " ", "e", "l", "s", "e", " ",
        "{", " ", "f", "(", "x", ",", " ", "1", " ", "+", " ", "y", ")",
        " ", "}", " ", "}", ";">>,
      \* a(b, (c + d) * e)(f);
      <<"a", "(", "b", ",", " ", "(", "c", " ", "+", " ", "d", ")", " ",
        "*", " ", "e", ")", "(", "f", ")", ";">> } }

\* function literals over every list of a few parameters, identifiers and
\* other tokens, and lists with a comma missing or left over
ParamWords == {<<"x">>, <<"y">>, <<"1">>, <<"+">>, kwTrue}

ParamSrc(ws) == kwFn \o <<"(">> \o Join(ws, <<",", " ">>) \o <<")", " ", "{", "}">>

ParamInputs ==
    {ParamSrc(ws) : ws \in SeqsUpTo(ParamWords, MaxParams)}
      \cup { kwFn \o <<"(", "x", " ", "y", ")", " ", "{", "}">>,
             kwFn \o <<"(", "x", ",", ")", " ", "{", "}">>,
             kwFn \o <<"(", ",", "x", ")", " ", "{", "}">>,
             kwLet \o <<" ", "f", " ", "=", " ">> \o ParamSrc(<<<<"x">>, <<"1">>>>) \o <<";">>,
             ParamSrc(<<<<"a">>, <<"b">>>>) \o <<"(", "1", ",", " ", "2", ")", ";">> }

ParserInputs ==
    ChainInputs \cup PrefixInputs \cup StmtInputs \cup WordInputs \cup SampleInputs
      \cup BlockInputs \cup IntInputs \cup CutInputs \cup ParamInputs

\* every string of a few bytes
Alphabet == {"a", "1", " ", "\n", "=", "!", Quote, "@", NUL}

ByteInputs == SeqsUpTo(Alphabet, MaxLen)

\* keywords, and runs of letters that are no keyword
RunInputs ==
    { kwFn, kwLet, kwTrue, kwFalse, kwIf, kwElse, kwReturn,
      kwLet \o <<"x">>, kwLet \o <<" ">> \o kwLet \o <<"x">>,
      <<"f","o","o","1">>, kwFn \o <<"1">>, <<"_","a">>, kwIf \o <<"f">>,
      <<"L","e","t">>, <<"r","e","t","u","r">>, <<"x","_","Y",";">>,
      <<"1">> \o kwIf, kwElse \o <<"=","=">> \o kwTrue }

LexerInputs == ByteInputs \cup RunInputs

(***************************************************************************)
(* The programs evaluated, byte by byte; each one parses without an error. *)
(***************************************************************************)
\* programs with a return inside nested blocks, at the root and in functions
ReturnPrograms ==
    {
      \* return 7; 8;
      <<"r", "e", "t", "u", "r", "n", " ", "7", ";", " ", "8", ";">>,
      \* if (true) { return 7; } 8;
      <<"i", "f", " ", "(", "t", "r", "u", "e", ")", " ", "{", " ", "r",
        "e", "t", "u", "r", "n", " ", "7", ";", " ", "}", " ", "8", ";">>,
      \* if (true) { if (true) { return 7; } 8; } 9;
      <<"i", "f", " ", "(", "t", "r", "u", "e", ")", " ", "{", " ", "i",
        "f", " ", "(", "t", "r", "u", "e", ")", " ", "{", " ", "r", "e",
        "t", "u", "r", "n", " ", "7", ";", " ", "}", " ", "8", ";", " ",
        "}", " ", "9", ";">>,
      \* let f = fn(x) { return x; 2; }; f(1) + 10;
      <<"l", "e", "t", " ", "f", " ", "=", " ", "f", "n", "(", "x", ")",
        " ", "{", " ", "r", "e", "t", "u", "r", "n", " ", "x", ";", " ",
        "2", ";", " ", "}", ";", " ", "f", "(", "1", ")", " ", "+", " ",
        "1", "0", ";">>,
      \* let f = fn(x) { if (x) { return 1; } 2; }; f(true); 5;
      <<"l", "e", "t", " ", "f", " ", "=", " ", "f", "n", "(", "x", ")",
        " ", "{", " ", "i", "f", " ", "(", "x", ")", " ", "{", " ", "r",
        "e", "t", "u", "r", "n", " ", "1", ";", " ", "}", " ", "2", ";",
        " ", "}", ";", " ", "f", "(", "t", "r", "u", "e", ")", ";", " ",
        "5", ";">>,
      \* let f = fn(x) { if (x) { return 1; } 2; }; f(false) + f(true);
      <<"l", "e", "t", " ", "f", " ", "=", " ", "f", "n", "(", "x", ")",
        " ", "{", " ", "i", "f", " ", "(", "x", ")", " ", "{", " ", "r",
        "e", "t", "u", "r", "n", " ", "1", ";", " ", "}", " ", "2", ";",
        " ", "}", ";", " ", "f", "(", "f", "a", "l", "s", "e", ")", " ",
        "+", " ", "f", "(", "t", "r", "u", "e", ")", ";">>,
      \* let f = fn(x) { if (x) { if (x) { return 1; } 2; } 3; }; let a = f(true); a + 10;
      <<"l", "e", "t", " ", "f", " ", "=", " ", "f", "n", "(", "x", ")",
        " ", "{", " ", "i", "f", " ", "(", "x", ")", " ", "{", " ", "i",
        "f", " ", "(", "x", ")", " ", "{", " ", "r", "e", "t", "u", "r",
        "n", " ", "1", ";", " ", "}", " ", "2", ";", " ", "}", " ", "3",
        ";", " ", "}", ";", " ", "l", "e", "t", " ", "a", " ", "=", " ",
        "f", "(", "t", "r", "u", "e", ")", ";", " ", "a", " ", "+", " ",
        "1", "0", ";">>,
      \* let g = fn() { return 4; }; let f = fn() { g(); 6; }; f();
      <<"l", "e", "t", " ", "g", " ", "=", " ", "f", "n", "(", ")", " ",
        "{", " ", "r", "e", "t", "u", "r", "n", " ", "4", ";", " ", "}",
        ";", " ", "l", "e", "t", " ", "f", " ", "=", " ", "f", "n", "(",
        ")", " ", "{", " ", "g", "(", ")", ";", " ", "6", ";", " ", "}",
        ";", " ", "f", "(", ")", ";">>,
      \* let g = fn() { if (true) { return 4; } }; let f = fn() { if (true) { g(); 6; } }; f() + 1;
      <<"l", "e", "t", " ", "g", " ", "=", " ", "f", "n", "(", ")", " ",
        "{", " ", "i", "f", " ", "(", "t", "r", "u", "e", ")", " ", "{",
        " ", "r", "e", "t", "u", "r", "n", " ", "4", ";", " ", "}", " ",
        "}", ";", " ", "l", "e", "t", " ", "f", " ", "=", " ", "f", "n",
        "(", ")", " ", "{", " ", "i", "f", " ", "(", "t", "r", "u", "e",
        ")", " ", "{", " ", "g", "(", ")", ";", " ", "6", ";", " ", "}",
        " ", "}", ";", " ", "f", "(", ")", " ", "+", " ", "1", ";">>,
      \* let counter = fn(x) { if (x > 0) { return true; } else { let foo = 9999; counter(x + 1); } }; counter(0);
      <<"l", "e", "t", " ", "c", "o", "u", "n", "t", "e", "r", " ", "=",
        " ", "f", "n", "(", "x", ")", " ", "{", " ", "i", "f", " ", "(",
        "x", " ", ">", " ", "0", ")", " ", "{", " ", "r", "e", "t", "u",
        "r", "n", " ", "t", "r", "u", "e", ";", " ", "}", " ", "e", "l",
        "s", "e", " ", "{", " ", "l", "e", "t", " ", "f", "o", "o", " ",
        "=", " ", "9", "9", "9", "9", ";", " ", "c", "o", "u", "n", "t",
        "e", "r", "(", "x", " ", "+", " ", "1", ")", ";", " ", "}", " ",
        "}", ";", " ", "c", "o", "u", "n", "t", "e", "r", "(", "0", ")",
        ";">>,
      \* fn() { return 1; }(); 2;
      <<"f", "n", "(", ")", " ", "{", " ", "r", "e", "t", "u", "r", "n",
        " ", "1", ";", " ", "}", "(", ")", ";", " ", "2", ";">> }

\* programs where an if that returns is an operand or the value of a return
ReturnOperandPrograms ==
    {
      \* let f = fn() { if (true) { return 1; } + 2; }; f(); 5;
      <<"l", "e", "t", " ", "f", " ", "=", " ", "f", "n", "(", ")", " ",
        "{", " ", "i", "f", " ", "(", "t", "r", "u", "e", ")", " ", "{",
        " ", "r", "e", "t", "u", "r", "n", " ", "1", ";", " ", "}", " ",
        "+", " ", "2", ";", " ", "}", ";", " ", "f", "(", ")", ";", " ",
        "5", ";">>,
      \* let f = fn() { return if (true) { return 1; }; }; f(); 5;
      <<"l", "e", "t", " ", "f", " ", "=", " ", "f", "n", "(", ")", " ",
        "{", " ", "r", "e", "t", "u", "r", "n", " ", "i", "f", " ", "(",
        "t", "r", "u", "e", ")", " ", "{", " ", "r", "e", "t", "u", "r",
        "n", " ", "1", ";", " ", "}", ";", " ", "}", ";", " ", "f", "(",
        ")", ";", " ", "5", ";">>,
      \* let f = fn() { !if (true) { return 1; }; 2; }; f(); 5;
      <<"l", "e", "t", " ", "f", " ", "=", " ", "f", "n", "(", ")", " ",
        "{", " ", "!", "i", "f", " ", "(", "t", "r", "u", "e", ")", " ",
        "{", " ", "r", "e", "t", "u", "r", "n", " ", "1", ";", " ", "}",
        ";", " ", "2", ";", " ", "}", ";", " ", "f", "(", ")", ";", " ",
        "5", ";">> }

\* programs with an evaluation that yields an Error
ErrorPrograms ==
    {
      \* foobar; 1;
      <<"f", "o", "o", "b", "a", "r", ";", " ", "1", ";">>,
      \* 5 + true; 1;
      <<"5", " ", "+", " ", "t", "r", "u", "e", ";", " ", "1", ";">>,
      \* -true; 1;
      <<"-", "t", "r", "u", "e", ";", " ", "1", ";">>,
      \* foo + bar;
      <<"f", "o", "o", " ", "+", " ", "b", "a", "r", ";">>,
      \* 1 + foo + bar;
      <<"1", " ", "+", " ", "f", "o", "o", " ", "+", " ", "b", "a", "r",
        ";">>,
      \* let a = foo; a;
      <<"l", "e", "t", " ", "a", " ", "=", " ", "f", "o", "o", ";", " ",
        "a", ";">>,
      \* !foo; 1;
      <<"!", "f", "o", "o", ";", " ", "1", ";">>,
      \* if (foo) { 1 } else { 2 }; 3;
      <<"i", "f", " ", "(", "f", "o", "o", ")", " ", "{", " ", "1", " ",
        "}", " ", "e", "l", "s", "e", " ", "{", " ", "2", " ", "}", ";",
        " ", "3", ";">>,
      \* if (1 < 2) { true + 1; 5 }; 6;
      <<"i", "f", " ", "(", "1", " ", "<", " ", "2", ")", " ", "{", " ",
        "t", "r", "u", "e", " ", "+", " ", "1", ";", " ", "5", " ", "}",
        ";", " ", "6", ";">>,
      \* let f = fn(x, y) { x }; f(foo, bar); 3;
      <<"l", "e", "t", " ", "f", " ", "=", " ", "f", "n", "(", "x", ",",
        " ", "y", ")", " ", "{", " ", "x", " ", "}", ";", " ", "f", "(",
        "f", "o", "o", ",", " ", "b", "a", "r", ")", ";", " ", "3", ";">>,
      \* foo(bar);
      <<"f", "o", "o", "(", "b", "a", "r", ")", ";">>,
      \* 1(2); 3;
      <<"1", "(", "2", ")", ";", " ", "3", ";">>,
      \* let f = fn(x) { if (x) { foo; 2; } 3; }; f(true) + 1; 4;
      <<"l", "e", "t", " ", "f", " ", "=", " ", "f", "n", "(", "x", ")",
        " ", "{", " ", "i", "f", " ", "(", "x", ")", " ", "{", " ", "f",
        "o", "o", ";", " ", "2", ";", " ", "}", " ", "3", ";", " ", "}",
        ";", " ", "f", "(", "t", "r", "u", "e", ")", " ", "+", " ", "1",
        ";", " ", "4", ";">>,
      \* return foo; 1;
      <<"r", "e", "t", "u", "r", "n", " ", "f", "o", "o", ";", " ", "1",
        ";">>,
      \* let f = fn() { bar; }; let g = fn() { f() + 1; 2; }; g(); 3;
      <<"l", "e", "t", " ", "f", " ", "=", " ", "f", "n", "(", ")", " ",
        "{", " ", "b", "a", "r", ";", " ", "}", ";", " ", "l", "e", "t",
        " ", "g", " ", "=", " ", "f", "n", "(", ")", " ", "{", " ", "f",
        "(", ")", " ", "+", " ", "1", ";", " ", "2", ";", " ", "}", ";",
        " ", "g", "(", ")", ";", " ", "3", ";">>,
      \* "a" - "b"; 1;
      <<Quote, "a", Quote, " ", "-", " ", Quote, "b", Quote, ";", " ",
        "1", ";">>,
      \* true > false;
      <<"t", "r", "u", "e", " ", ">", " ", "f", "a", "l", "s", "e", ";">> }

\* programs with bindings in several frames
ScopePrograms ==
    {
      \* let x = 1; let f = fn(x) { x; }; f(2); x;
      <<"l", "e", "t", " ", "x", " ", "=", " ", "1", ";", " ", "l", "e",
        "t", " ", "f", " ", "=", " ", "f", "n", "(", "x", ")", " ", "{",
        " ", "x", ";", " ", "}", ";", " ", "f", "(", "2", ")", ";", " ",
        "x", ";">>,
      \* let x = 1; let f = fn() { let x = 2; x; }; f(); x;
      <<"l", "e", "t", " ", "x", " ", "=", " ", "1", ";", " ", "l", "e",
        "t", " ", "f", " ", "=", " ", "f", "n", "(", ")", " ", "{", " ",
        "l", "e", "t", " ", "x", " ", "=", " ", "2", ";", " ", "x", ";",
        " ", "}", ";", " ", "f", "(", ")", ";", " ", "x", ";">>,
      \* let f = fn() { let y = 5; y; }; f(); y;
      <<"l", "e", "t", " ", "f", " ", "=", " ", "f", "n", "(", ")", " ",
        "{", " ", "l", "e", "t", " ", "y", " ", "=", " ", "5", ";", " ",
        "y", ";", " ", "}", ";", " ", "f", "(", ")", ";", " ", "y", ";">>,
      \* let n = fn(x) { fn(y) { x + y; }; }; let a = n(2); a(3);
      <<"l", "e", "t", " ", "n", " ", "=", " ", "f", "n", "(", "x", ")",
        " ", "{", " ", "f", "n", "(", "y", ")", " ", "{", " ", "x", " ",
        "+", " ", "y", ";", " ", "}", ";", " ", "}", ";", " ", "l", "e",
        "t", " ", "a", " ", "=", " ", "n", "(", "2", ")", ";", " ", "a",
        "(", "3", ")", ";">>,
      \* let x = 1; let c = fn() { let x = 2; fn() { let x = 3; x; }; }; let g = c(); g() + x;
      <<"l", "e", "t", " ", "x", " ", "=", " ", "1", ";", " ", "l", "e",
        "t", " ", "c", " ", "=", " ", "f", "n", "(", ")", " ", "{", " ",
        "l", "e", "t", " ", "x", " ", "=", " ", "2", ";", " ", "f", "n",
        "(", ")", " ", "{", " ", "l", "e", "t", " ", "x", " ", "=", " ",
        "3", ";", " ", "x", ";", " ", "}", ";", " ", "}", ";", " ", "l",
        "e", "t", " ", "g", " ", "=", " ", "c", "(", ")", ";", " ", "g",
        "(", ")", " ", "+", " ", "x", ";">>,
      \* let x = 1; let f = fn() { x; }; let g = fn() { let x = 2; f(); }; g();
      <<"l", "e", "t", " ", "x", " ", "=", " ", "1", ";", " ", "l", "e",
        "t", " ", "f", " ", "=", " ", "f", "n", "(", ")", " ", "{", " ",
        "x", ";", " ", "}", ";", " ", "l", "e", "t", " ", "g", " ", "=",
        " ", "f", "n", "(", ")", " ", "{", " ", "l", "e", "t", " ", "x",
        " ", "=", " ", "2", ";", " ", "f", "(", ")", ";", " ", "}", ";",
        " ", "g", "(", ")", ";">>,
      \* let a = 1; let f = fn(b) { let a = b; let b = 3; a + b; }; f(2) + a;
      <<"l", "e", "t", " ", "a", " ", "=", " ", "1", ";", " ", "l", "e",
        "t", " ", "f", " ", "=", " ", "f", "n", "(", "b", ")", " ", "{",
        " ", "l", "e", "t", " ", "a", " ", "=", " ", "b", ";", " ", "l",
        "e", "t", " ", "b", " ", "=", " ", "3", ";", " ", "a", " ", "+",
        " ", "b", ";", " ", "}", ";", " ", "f", "(", "2", ")", " ", "+",
        " ", "a", ";">>,
      \* let x = 1; if (true) { let x = 2; } x;
      <<"l", "e", "t", " ", "x", " ", "=", " ", "1", ";", " ", "i", "f",
        " ", "(", "t", "r", "u", "e", ")", " ", "{", " ", "l", "e", "t",
        " ", "x", " ", "=", " ", "2", ";", " ", "}", " ", "x", ";">> }

\* the concrete scenarios of the language
ScenarioPrograms ==
    {
      \* 5 + 5 * 2;
      <<"5", " ", "+", " ", "5", " ", "*", " ", "2", ";">>,
      \* let a = 5; let b = a > 3; let c = a * 99; if (b) { 10 } else { 1 };
      <<"l", "e", "t", " ", "a", " ", "=", " ", "5", ";", " ", "l", "e",
        "t", " ", "b", " ", "=", " ", "a", " ", ">", " ", "3", ";", " ",
        "l", "e", "t", " ", "c", " ", "=", " ", "a", " ", "*", " ", "9",
        "9", ";", " ", "i", "f", " ", "(", "b", ")", " ", "{", " ", "1",
        "0", " ", "}", " ", "e", "l", "s", "e", " ", "{", " ", "1", " ",
        "}", ";">>,
      \* let add = fn(x, y) { x + y; }; add(5 + 5, add(5, 5));
      <<"l", "e", "t", " ", "a", "d", "d", " ", "=", " ", "f", "n", "(",
        "x", ",", " ", "y", ")", " ", "{", " ", "x", " ", "+", " ", "y",
        ";", " ", "}", ";", " ", "a", "d", "d", "(", "5", " ", "+", " ",
        "5", ",", " ", "a", "d", "d", "(", "5", ",", " ", "5", ")", ")",
        ";">>,
      \* let newAdder = fn(x) { fn(y) { x + y }; }; let addTwo = newAdder(2); addTwo(3);
      <<"l", "e", "t", " ", "n", "e", "w", "A", "d", "d", "e", "r", " ",
        "=", " ", "f", "n", "(", "x", ")", " ", "{", " ", "f", "n", "(",
        "y", ")", " ", "{", " ", "x", " ", "+", " ", "y", " ", "}", ";",
        " ", "}", ";", " ", "l", "e", "t", " ", "a", "d", "d", "T", "w",
        "o", " ", "=", " ", "n", "e", "w", "A", "d", "d", "e", "r", "(",
        "2", ")", ";", " ", "a", "d", "d", "T", "w", "o", "(", "3", ")",
        ";">>,
      \* "Hello" + " " + "World!";
      <<Quote, "H", "e", "l", "l", "o", Quote, " ", "+", " ", Quote, " ",
        Quote, " ", "+", " ", Quote, "W", "o", "r", "l", "d", "!", Quote,
        ";">>,
      \* !5; !!5; 7 / 2 - 6 / 3; 1 != 2; true == true; true != 1;
      <<"!", "5", ";", " ", "!", "!", "5", ";", " ", "7", " ", "/", " ",
        "2", " ", "-", " ", "6", " ", "/", " ", "3", ";", " ", "1", " ",
        "!", "=", " ", "2", ";", " ", "t", "r", "u", "e", " ", "=", "=",
        " ", "t", "r", "u", "e", ";", " ", "t", "r", "u", "e", " ", "!",
        "=", " ", "1", ";">>,
      \* the empty program
      <<>> }
EvalInputs ==
    ReturnPrograms \cup ReturnOperandPrograms \cup ErrorPrograms
        \cup ScopePrograms \cup ScenarioPrograms

(***************************************************************************)
(* The state machine.  A caller makes a Lexer of an input and either       *)
(* calls NextToken on it itself (LexSpec), or makes a Parser of it and     *)
(* calls ParseProgram (Spec), one turn of ParseProgram's loop a step.      *)
(***************************************************************************)
InitOf(inputs) ==
    \E input \in inputs :
        /\ l = LexerNew(input)
        /\ toks = <<>>
        /\ p = [l |-> LexerNew(input), errors |-> <<>>,
                curToken |-> Token("", <<>>), peekToken |-> Token("", <<>>),
                hung |-> FALSE]
        /\ program = <<>>
        /\ pc = "lexer"
        /\ ev = [heap |-> <<>>, trace |-> <<>>, result |-> Null, idx |-> 0]

\* tok := l.NextToken(), by the caller itself
CallNextToken ==
    /\ pc = "lexer"
    /\ l.position < Len(l.input) + MaxOverrun
    /\ ~l.panicked
    /\ LET r == NextToken(l)
       IN  /\ l' = r.l
           /\ toks' = IF r.l.panicked THEN toks ELSE Append(toks, r.tok)
    /\ UNCHANGED <<p, program, pc, ev>>

\* p := parser.New(l), and the first lines of ParseProgram
New ==
    /\ pc = "lexer"
    /\ toks = <<>>
    /\ p' = ParserNew(l)
    /\ l' = p'.l
    /\ program' = <<>>
    /\ pc' = "parsing"
    /\ UNCHANGED <<toks, ev>>

\* one turn of the loop of ParseProgram; a parseReturnStatement that does
\* not come back leaves control in its loop
ParseProgramStep ==
    /\ pc = "parsing"
    /\ p.curToken.Type # EOF
    /\ \E r \in {parseStatement(p)} :
           IF r.p.hung
           THEN /\ p' = r.p
                /\ program' = program
                /\ pc' = "returnLoop"
           ELSE /\ p' = nextToken(r.p)
                /\ program' = IF r.node # NilNode
                              THEN Append(program, r.node)
                              ELSE program
                /\ pc' = "parsing"
    /\ l' = p'.l
    /\ UNCHANGED <<toks, ev>>

\* the loop of ParseProgram ends, and ParseProgram returns the program
ParseProgramReturn ==
    /\ pc = "parsing"
    /\ p.curToken.Type = EOF
    /\ pc' = "done"
    /\ UNCHANGED <<l, toks, p, program, ev>>

\* one turn of the loop of parseReturnStatement on the exhausted input
ReturnLoopTurn ==
    /\ pc = "returnLoop"
    /\ ~curTokenIs(p, SEMICOLON)
    /\ p.l.position < Len(p.l.input) + MaxOverrun + 4
    /\ p' = [nextToken([p EXCEPT !.hung = FALSE]) EXCEPT !.hung = TRUE]
    /\ l' = p'.l
    /\ UNCHANGED <<toks, program, pc, ev>>

Init == InitOf(ParserInputs)

Next == New \/ ParseProgramStep \/ ParseProgramReturn \/ ReturnLoopTurn

Spec == Init /\ [][Next]_vars

LexInit == InitOf(LexerInputs)

LexNext == CallNextToken

LexSpec == LexInit /\ [][LexNext]_vars

\* A caller parses an input and, the parser having no error, evaluates the
\* program in a new environment (EvalSpec), one turn of the loop over the
\* program's statements a step.
EvalInit ==
    \E input \in EvalInputs :
        \E r \in {ParseProgram(ParserNew(LexerNew(input)))} :
            /\ r.p.errors = <<>>
            /\ l = r.p.l
            /\ toks = <<>>
            /\ p = r.p
            /\ program = r.Statements
            /\ pc = "eval"
            /\ ev = [heap |-> <<NewEnclosedEnvironment(NoEnv)>>, trace |-> <<>>,
                     result |-> Null, idx |-> 1]

\* one turn of the loop of the evaluation of a Program: an Error ends it,
\* a ReturnValue ends it unwrapped
EvalProgramStep ==
    /\ pc = "eval"
    /\ ev.idx <= Len(program)
    /\ \E r \in {Eval(program[ev.idx], RootEnv,
                      [heap |-> ev.heap, trace |-> ev.trace])} :
           /\ ev' = [heap |-> r.es.heap, trace |-> r.es.trace,
                     result |-> unwrapReturnValue(r.obj), idx |-> ev.idx + 1]
           /\ pc' = IF r.obj.Type \in {RETURN_VALUE_OBJECT, ERROR_OBJ}
                    THEN "evaluated"
                    ELSE "eval"
    /\ UNCHANGED <<l, toks, p, program>>

\* the loop ends, and the evaluation returns the value of the last statement
EvalProgramReturn ==
    /\ pc = "eval"
    /\ ev.idx > Len(program)
    /\ pc' = "evaluated"
    /\ UNCHANGED <<l, toks, p, program, ev>>

EvalNext == EvalProgramStep \/ EvalProgramReturn

EvalSpec == EvalInit /\ [][EvalNext]_vars

(***************************************************************************)
(* The claims.                                                             *)
(***************************************************************************)
ErrorFree == p.errors = <<>>

\* (lhs op rhs), as text
Paren(lhs, op, rhs) == <<"(">> \o lhs \o <<" ">> \o op \o <<" ">> \o rhs \o <<")">>

\* the levels of the infix operators as the claims state them:
\* Equals < LessGreater < Sum < Product
ClaimedLevel(op) ==
    CASE op \in {<<"=","=">>, <<"!","=">>} -> 1
      [] op \in {<<"<">>, <<">">>} -> 2
      [] op \in {<<"+">>, <<"-">>} -> 3
      [] op \in {<<"*">>, <<"/">>} -> 4

\* C1: for every finite source, ParseProgram terminates and returns the
\* Program with the error list, also on a `return` or `let` that no ";"
\* follows before the end of input.  Stated of the running parser: it is
\* never in a loop that cannot end, that is, in the loop of
\* parseReturnStatement (which ends on a ";" only) with the input exhausted
\* (where every further token is EOF).
C1_ParseProgramTerminates ==
    ~(pc = "returnLoop" /\ ~curTokenIs(p, SEMICOLON) /\ exhausted(p))

\* C2: in `a op1 b op2 c` with operators of different levels the operator of
\* the higher level binds tighter: the parse prints (a op1 (b op2 c)) when
\* level(op1) < level(op2) and ((a op1 b) op2 c) when level(op1) > level(op2).
C2_HigherLevelBindsTighter ==
    pc = "done" =>
        \A o \in InfixOps \X InfixOps :
            l.input = ChainSrc(<<o[1], o[2]>>) =>
                /\ ClaimedLevel(o[1]) < ClaimedLevel(o[2]) =>
                       /\ ErrorFree
                       /\ ProgramString(program)
                            = Paren(<<"a">>, o[1], Paren(<<"b">>, o[2], <<"c">>))
                /\ ClaimedLevel(o[1]) > ClaimedLevel(o[2]) =>
                       /\ ErrorFree
                       /\ ProgramString(program)
                            = Paren(Paren(<<"a">>, o[1], <<"b">>), o[2], <<"c">>)

\* `a + b * c` and `a * b + c` have been parsed
C2_Witness ==
    /\ pc = "done"
    /\ \/ /\ l.input = ChainSrc(<<<<"+">>, <<"*">>>>)
          /\ ProgramString(program)
               = Paren(<<"a">>, <<"+">>, Paren(<<"b">>, <<"*">>, <<"c">>))
       \/ /\ l.input = ChainSrc(<<<<"=","=">>, <<"<">>>>)
          /\ ProgramString(program)
               = Paren(<<"a">>, <<"=","=">>, Paren(<<"b">>, <<"<">>, <<"c">>))

\* ((a op1 b) op2 c) ..., as text
RECURSIVE LeftNest(_, _, _)
LeftNest(acc, ops, i) ==
    IF ops = <<>> THEN acc
    ELSE LeftNest(Paren(acc, Head(ops), Operand(i)), Tail(ops), i + 1)

SameLevel(ops) ==
    \A i, j \in 1..Len(ops) : ClaimedLevel(ops[i]) = ClaimedLevel(ops[j])

\* C3: a chain of infix operators of one level nests to the left:
\* `a - b + c` parses as ((a - b) + c), never as (a - (b + c)).
C3_LeftAssociative ==
    pc = "done" =>
        \A ops \in SeqsUpTo(InfixOps, MaxOps) :
            (Len(ops) >= 2 /\ SameLevel(ops) /\ l.input = ChainSrc(ops)) =>
                /\ ErrorFree
                /\ ProgramString(program) = LeftNest(<<"a">>, ops, 2)

\* `a - b + c` has been parsed
C3_Witness ==
    /\ pc = "done"
    /\ l.input = ChainSrc(<<<<"-">>, <<"+">>>>)
    /\ ProgramString(program)
         = Paren(Paren(<<"a">>, <<"-">>, <<"b">>), <<"+">>, <<"c">>)

\* C4: a prefix operator binds tighter than every infix operator and looser
\* than a call: `-a * b` is ((-a) * b), `!a == b` is ((!a) == b), `-f(x)` is
\* the prefix operator applied to the call f(x); a parenthesised group
\* overrides the levels and leaves no node: `(a + b) * c` prints
\* ((a + b) * c).
C4_PrefixAndGroup ==
    pc = "done" =>
        /\ \A pre \in PrefixOps, op \in InfixOps :
              l.input = PrefixSrc(pre, op) =>
                  /\ ErrorFree
                  /\ ProgramString(program)
                       = Paren(<<"(">> \o pre \o <<"a", ")">>, op, <<"b">>)
        /\ \A pre \in PrefixOps :
              l.input = PrefixCallSrc(pre) =>
                  /\ ErrorFree
                  /\ Len(program) = 1
                  /\ program[1].node = "ExpressionStatement"
                  /\ program[1].Expression.node = "PrefixExpression"
                  /\ program[1].Expression.Operator = pre
                  /\ program[1].Expression.Right.node = "CallExpression"
                  /\ program[1].Expression.Right.Function.node = "Identifier"
                  /\ program[1].Expression.Right.Function.Value = <<"f">>
                  /\ Len(program[1].Expression.Right.Arguments) = 1
                  /\ program[1].Expression.Right.Arguments[1].node = "Identifier"
                  /\ program[1].Expression.Right.Arguments[1].Value = <<"x">>
        /\ \A o \in InfixOps \X InfixOps :
              /\ l.input = GroupLeftSrc(o[1], o[2]) =>
                    /\ ErrorFree
                    /\ ProgramString(program)
                         = Paren(Paren(<<"a">>, o[1], <<"b">>), o[2], <<"c">>)
              /\ l.input = GroupRightSrc(o[1], o[2]) =>
                    /\ ErrorFree
                    /\ ProgramString(program)
                         = Paren(<<"a">>, o[1], Paren(<<"b">>, o[2], <<"c">>))

\* `-a * b` has been parsed
C4_Witness ==
    /\ pc = "done"
    /\ l.input = PrefixSrc(<<"-">>, <<"*">>)
    /\ ProgramString(program)
         = <<"(", "(", "-", "a", ")", " ", "*", " ", "b", ")">>

\* the Go types of the nodes of the tree under n
RECURSIVE Kinds(_)
KindsOfAll(ns) == UNION {Kinds(ns[i]) : i \in 1..Len(ns)}
Kinds(n) ==
    {n.node} \cup
    CASE n.node = "LetStatement" -> Kinds(n.Name) \cup Kinds(n.Value)
      [] n.node = "ReturnStatement" -> Kinds(n.ReturnValue)
      [] n.node = "ExpressionStatement" -> Kinds(n.Expression)
      [] n.node = "PrefixExpression" -> Kinds(n.Right)
      [] n.node = "InfixExpression" -> Kinds(n.Left) \cup Kinds(n.Right)
      [] n.node = "IfExpression" ->
            Kinds(n.Condition) \cup Kinds(n.Consequence) \cup Kinds(n.Alternative)
      [] n.node = "BlockStatement" -> KindsOfAll(n.Statements)
      [] n.node = "FunctionLiteral" -> KindsOfAll(n.Parameters) \cup Kinds(n.Body)
      [] n.node = "CallExpression" -> Kinds(n.Function) \cup KindsOfAll(n.Arguments)
      [] OTHER -> {}

\* the parse of the text of the program
Reparse == ParseProgram(ParserNew(LexerNew(ProgramString(program))))

RoundTrips ==
    /\ ~Reparse.p.hung
    /\ Reparse.p.errors = <<>>
    /\ ProgramString(Reparse.Statements) = ProgramString(program)

\* no call and no string literal: the forms whose String method the sources
\* hold
PrintedBySource ==
    KindsOfAll(program) \cap {"CallExpression", "StringLiteral"} = {}

\* C5, as claimed: for every source that ParseProgram parses with an empty
\* error list into a program P, the parse of P.String() has an empty error
\* list too and a program whose String() equals P.String(), for every
\* statement and expression form, `if`/`else` and function literals among
\* them.  Stated of the forms whose String method the sources hold.
C5_RoundTrip == (pc = "done" /\ ErrorFree /\ PrintedBySource) => RoundTrips

\* let and return statements of identifiers, integers, booleans, prefix and
\* infix expressions, and an expression statement as the last statement only
PlainProgram ==
    /\ KindsOfAll(program)
         \subseteq {"LetStatement", "ReturnStatement", "ExpressionStatement",
                    "Identifier", "IntegerLiteral", "Boolean",
                    "PrefixExpression", "InfixExpression"}
    /\ \A i \in 1..Len(program) :
          program[i].node = "ExpressionStatement" => i = Len(program)

\* C5, amended: the round trip holds for every error-free program that has
\* no if expression, no function literal, no call and no string literal, and
\* whose expression statement, if it has one, is its last statement.
C5_RoundTripOfPlainPrograms ==
    (pc = "done" /\ ErrorFree /\ PlainProgram) => RoundTrips

\* two statements, of which the printer changed the text, have been parsed
C5_Witness ==
    /\ pc = "done"
    /\ ErrorFree
    /\ PlainProgram
    /\ Len(program) = 2
    /\ "InfixExpression" \in KindsOfAll(program)
    /\ ProgramString(program) # l.input
    /\ RoundTrips

SawEof == \E i \in 1..Len(toks) : toks[i].Type = EOF

\* the lexemes of the tokens before the first EOF, one after the other
RECURSIVE LexemesToEof(_)
LexemesToEof(ts) ==
    IF ts = <<>> \/ Head(ts).Type = EOF THEN <<>>
    ELSE Head(ts).Literal \o LexemesToEof(Tail(ts))

NotWhitespace(b) == b \notin Whitespace

StripWhitespace(s) == SelectSeq(s, NotWhitespace)

Bytes(s) == {s[i] : i \in 1..Len(s)}

RECURSIVE UpToNul(_)
UpToNul(s) ==
    IF s = <<>> \/ Head(s) = NUL THEN <<>> ELSE <<Head(s)>> \o UpToNul(Tail(s))

C7_EofAfterTheEnd ==
    [][l.position >= Len(l.input) => toks' = Append(toks, Token(EOF, <<>>))]_vars

\* three calls in a row after the end of a non-empty input returned EOF
C7_Witness ==
    /\ Len(l.input) > 0
    /\ Len(toks) >= 4
    /\ toks[1].Type # EOF
    /\ \A i \in (Len(toks) - 2)..Len(toks) : toks[i] = Token(EOF, <<>>)

\* the statement the turn of ParseProgram's loop at hand parses
Parsed == parseStatement(p)

\* the parser moved to the first ";" from its current token on, or to EOF
RECURSIVE skipToBoundary(_)
skipToBoundary(ps) ==
    IF curTokenIs(ps, SEMICOLON) \/ curTokenIs(ps, EOF) THEN ps
    ELSE skipToBoundary(nextToken(ps))

\* ... and to the token after that ";"
AfterBoundary(ps) ==
    LET b == skipToBoundary(ps)
    IN  IF curTokenIs(b, SEMICOLON) THEN nextToken(b) ELSE b

\* C8: when a statement fails to parse, ParseProgram records the message and
\* resumes at the next statement boundary, so that no token of the failed
\* statement (the `= 5` of `let = 5;`) is parsed as a statement of its own.
\* Stated of a turn of the loop that parses a failing `let`.
C8_ResumesAtBoundary ==
    [][(pc = "parsing" /\ pc' = "parsing" /\ Parsed.node = NilLetStatement) =>
          /\ Len(p'.errors) = Len(p.errors) + 1
          /\ p'.curToken = AfterBoundary(Parsed.p).curToken
          /\ p'.peekToken = AfterBoundary(Parsed.p).peekToken
          /\ p'.l = AfterBoundary(Parsed.p).l]_vars

\* the parser at the expectation of parseLetStatement that fails
AtFailedExpectation ==
    IF ~peekTokenIs(p, IDENT) THEN p ELSE nextToken(p)

\* what that expectation expects
ExpectedKind == IF ~peekTokenIs(p, IDENT) THEN "IDENT" ELSE "="

\* C9: in parseLetStatement, when the token after `let` is not an Ident, or
\* the token after the name is not `=`, exactly one message "expected next
\* token to be X, got Y instead" is appended (X the expected kind, Y the
\* kind of the peek token), no Let statement is returned or added to the
\* Program, and the failed expectation leaves curToken and peekToken as
\* they are.
C9_LetFailure ==
    [][(pc = "parsing" /\ pc' = "parsing" /\ curTokenIs(p, TOK_LET)
          /\ (~peekTokenIs(p, IDENT) \/ ~peekTokenIs(nextToken(p), ASSIGN))) =>
          /\ parseLetStatement(p).p.errors
               = Append(p.errors,
                        <<"expected next token to be ", ExpectedKind, ", got ",
                          AtFailedExpectation.peekToken.Type, " instead">>)
          /\ parseLetStatement(p).node = NilLetStatement
          /\ parseLetStatement(p).p.curToken = AtFailedExpectation.curToken
          /\ parseLetStatement(p).p.peekToken = AtFailedExpectation.peekToken
          /\ p'.errors = parseLetStatement(p).p.errors
          /\ program' = program]_vars

\* k times nextToken
RECURSIVE Advance(_, _)
Advance(ps, k) == IF k = 0 THEN ps ELSE Advance(nextToken(ps), k - 1)

\* the parser after the expression of the return statement at hand
AfterReturnValue == parseExpression(nextToken(p), LOWEST)

\* C10: parseReturnStatement parses one expression at LOWEST and then takes
\* tokens up to and including the next ";": when it returns, the current
\* token is that ";", and the tokens between the expression and that ";" add
\* no node to the tree and no error.  Stated of a turn of ParseProgram's loop
\* on a `return`: the turn appends the one Return statement of that
\* expression, and leaves the parser one token after the first ";" that
\* follows the expression, with the errors of the expression alone.
C10_ReturnTakesToSemicolon ==
    [][(pc = "parsing" /\ pc' = "parsing" /\ curTokenIs(p, RETURN)) =>
          \E k \in 0..Len(l.input) :
             /\ curTokenIs(Advance(AfterReturnValue.p, k), SEMICOLON)
             /\ \A j \in 0..(k - 1) :
                   ~curTokenIs(Advance(AfterReturnValue.p, j), SEMICOLON)
             /\ parseReturnStatement(p).p = Advance(AfterReturnValue.p, k)
             /\ parseReturnStatement(p).node
                   = [node |-> "ReturnStatement", Token |-> p.curToken,
                      ReturnValue |-> AfterReturnValue.node]
             /\ p' = nextToken(Advance(AfterReturnValue.p, k))
             /\ program' = Append(program, parseReturnStatement(p).node)]_vars

\* `return a b;` has been parsed: b is gone, without error
C10_Witness ==
    /\ pc = "done"
    /\ l.input = Src(<<kwReturn, <<"a">>, <<"b", ";">>>>)
    /\ ErrorFree
    /\ Len(program) = 1
    /\ program[1].node = "ReturnStatement"
    /\ program[1].ReturnValue = Identifier(Token(IDENT, <<"a">>))

\* the program of a source
ProgramOf(src) == ParseProgram(ParserNew(LexerNew(src))).Statements

\* the parser of the input at hand, at the "{" after the four tokens of a
\* block head
AtBrace == Advance(ParserNew(LexerNew(l.input)), 4)

\* the statement the program has after the statement with the block, when
\* the parser goes on from the token after "}" or after the ";" behind it
AfterBlock(tail) ==
    IF tail # <<>> /\ Head(tail) = ";" THEN ProgramOf(Tail(tail)) ELSE ProgramOf(tail)

\* C11: parseBlockStatements returns with the current token at the "}" that
\* closes the block it opened, whenever the input has that brace; the
\* statements of the block are those written between its "{" and that "}",
\* and no token after the brace is taken into the block.  Stated of the
\* parsed inputs `if (a) { body } tail` and `fn(x) { body } tail`.
C11_BlockEndsAtItsBrace ==
    \A h \in BlockHeads, b \in BlockBodies, t \in BlockTails :
        (pc = "done" /\ l.input = BlockSrc(h, b, t)) =>
            /\ curTokenIs(AtBrace, LBRACE)
            /\ curTokenIs(parseBlockStatements(AtBrace).p, RBRACE)
            /\ parseBlockStatements(AtBrace).node.Statements = ProgramOf(b)
            /\ Len(program) = 1 + Len(AfterBlock(t))
            /\ SubSeq(program, 2, Len(program)) = AfterBlock(t)

\* the position of the first `"` after position q, len(input) if there is
\* none
ClosingQuote(input, q) ==
    LET js == {j \in (q + 1)..(Len(input) - 1) : input[j + 1] = Quote}
    IN  IF js = {} THEN Len(input) ELSE CHOOSE j \in js : \A k \in js : j <= k

\* where the token of the next call of NextToken starts
TokenStart == skipWhitespace(l).position

\* the call of NextToken at hand returns the String token of the bytes from
\* the quote at TokenStart to the next quote or to the end of the input
StringTokenToClosingQuote ==
    LET c == ClosingQuote(l.input, TokenStart)
    IN  /\ toks' = Append(toks, Token(TOK_STRING, Slice(l.input, TokenStart + 1, c)))
        /\ c < Len(l.input) => l'.position = c + 1
        /\ c = Len(l.input) => NextToken(l').tok = Token(EOF, <<>>)

\* C12, as claimed: on a `"` the scanner returns a String token whose lexeme
\* is the bytes between that quote and the next `"`, and the next token
\* starts after the closing quote; with no closing quote the token is a
\* String still, its lexeme is every byte up to the end of the input, and
\* the next token is EOF.
C12_StringToken ==
    [][skipWhitespace(l).ch = Quote => StringTokenToClosingQuote]_vars

\* the statement of C12 on the inputs with no 0 byte, where it holds
C12_StringTokenWithoutNul ==
    [][(skipWhitespace(l).ch = Quote /\ NUL \notin Bytes(l.input))
          => StringTokenToClosingQuote]_vars

\* the byte of the input at position i (from 0), NUL beyond the end
ByteAt(i) == IF i < Len(l.input) THEN l.input[i + 1] ELSE NUL

\* C13: when the current byte is `=` (`!`) and the next byte is `=`, the one
\* token `==` (`!=`) is returned and both bytes are taken; otherwise the
\* token `=` (`!`) is returned and one byte is taken, so that `===` scans as
\* `==`, `=` and `!==` as `!=`, `=`.
C13_TwoByteOperators ==
    [][ByteAt(TokenStart) \in {"=", "!"} =>
          IF ByteAt(TokenStart + 1) = "="
          THEN /\ toks' = Append(toks,
                     IF ByteAt(TokenStart) = "="
                     THEN [Type |-> "==", Literal |-> <<"=", "=">>]
                     ELSE [Type |-> "!=", Literal |-> <<"!", "=">>])
               /\ l'.position = TokenStart + 2
          ELSE /\ toks' = Append(toks,
                     IF ByteAt(TokenStart) = "="
                     THEN [Type |-> "=", Literal |-> <<"=">>]
                     ELSE [Type |-> "!", Literal |-> <<"!">>])
               /\ l'.position = TokenStart + 1]_vars

\* `!==` has been scanned as `!=`, `=`
C13_Witness ==
    /\ l.input = <<"!", "=", "=">>
    /\ Len(toks) = 3
    /\ toks[1] = [Type |-> "!=", Literal |-> <<"!", "=">>]
    /\ toks[2] = [Type |-> "=", Literal |-> <<"=">>]
    /\ toks[3].Type = EOF

\* the end of the run of letters and "_" from position i on
RECURSIVE RunEnd(_)
RunEnd(i) == IF ByteAt(i) \in Letters THEN RunEnd(i + 1) ELSE i

\* the kind the claim gives a run
ClaimedKind(run) ==
    CASE run = <<"f","n">> -> "FUNCTION"
      [] run = <<"l","e","t">> -> "LET"
      [] run = <<"t","r","u","e">> -> "TRUE"
      [] run = <<"f","a","l","s","e">> -> "FALSE"
      [] run = <<"i","f">> -> "IF"
      [] run = <<"e","l","s","e">> -> "ELSE"
      [] run = <<"r","e","t","u","r","n">> -> "RETURN"
      [] OTHER -> "IDENT"

\* C14: on a letter or "_" the scanner reads the longest run of bytes in
\* [A-Za-z_] (a digit ends the run) and gives the whole run its kind: the
\* keyword's kind when the run is `fn`, `let`, `true`, `false`, `if`, `else`
\* or `return`, and Ident for every other run, `letx` among them.
C14_IdentifiersAndKeywords ==
    [][ByteAt(TokenStart) \in Letters =>
          LET run == Slice(l.input, TokenStart, RunEnd(TokenStart))
          IN  /\ toks' = Append(toks, [Type |-> ClaimedKind(run), Literal |-> run])
              /\ l'.position = RunEnd(TokenStart)]_vars

\* `let letx` has been scanned as the keyword and an identifier
C14_Witness ==
    /\ l.input = kwLet \o <<" ">> \o kwLet \o <<"x">>
    /\ Len(toks) = 3
    /\ toks[1] = [Type |-> "LET", Literal |-> <<"l","e","t">>]
    /\ toks[2] = [Type |-> "IDENT", Literal |-> <<"l","e","t","x">>]
    /\ toks[3].Type = EOF

\* the digit run, read as a decimal numeral, is more than 1<<63 - 1
AboveInt64(lit) ==
    \/ Len(stripZeros(lit)) > Len(MaxInt64Dec)
    \/ /\ Len(stripZeros(lit)) = Len(MaxInt64Dec)
       /\ ~numeralLeq(stripZeros(lit), MaxInt64Dec)

\* C15: when the digit run of an Int token denotes a value outside the range
\* of int64, parseIntegerLiteral makes no IntegerLiteral: it returns no
\* expression, appends the one error "could not parse X as integer", and
\* parsing goes on.  Stated of a turn of ParseProgram's loop on a statement
\* that begins with such a token.
C15_OutOfRangeLiteral ==
    [][(pc = "parsing" /\ curTokenIs(p, INT) /\ AboveInt64(p.curToken.Literal)) =>
          /\ parseIntegerLiteral(p).node = NilNode
          /\ parseIntegerLiteral(p).p.errors
               = Append(p.errors,
                        <<"could not parse ",
                          <<Quote>> \o p.curToken.Literal \o <<Quote>>,
                          " as integer">>)
          /\ pc' = "parsing"]_vars

(***************************************************************************)
(* The evaluation, read off its trace.                                     *)
(***************************************************************************)
\* two values are the same value
RECURSIVE SameObject(_, _)
SameObject(a, b) ==
    /\ a.Type = b.Type
    /\ IF a.Type = RETURN_VALUE_OBJECT THEN SameObject(a.Value, b.Value) ELSE a = b

Events == 1..Len(ev.trace)

IsExit(i) == ev.trace[i].e = "exit"

ExitOf(i, kind) == IsExit(i) /\ ev.trace[i].node = kind

YieldsReturn(i) == IsExit(i) /\ ev.trace[i].obj.Type = RETURN_VALUE_OBJECT

YieldsError(i) == IsExit(i) /\ isError(ev.trace[i].obj)

\* the evaluations that hand a ReturnValue on as it is
PassesReturn == {"BlockStatement", "IfExpression", "ExpressionStatement"}

\* the ReturnValue that event i yields goes to the evaluation around it,
\* which does nothing else: a block, an if or an expression statement
\* returns it as it is, the invocation of a function returns what it wraps,
\* and so does the program
ReturnGoesUp(i) ==
    IF i = Len(ev.trace)
    THEN /\ pc = "evaluated"
         /\ SameObject(ev.result, ev.trace[i].obj.Value)
         /\ ev.result.Type # RETURN_VALUE_OBJECT
    ELSE /\ IsExit(i + 1)
         /\ ev.trace[i + 1].node \in PassesReturn \cup {"Function"}
         /\ IF ev.trace[i + 1].node = "Function"
            THEN /\ SameObject(ev.trace[i + 1].obj, ev.trace[i].obj.Value)
                 /\ ev.trace[i + 1].obj.Type # RETURN_VALUE_OBJECT
            ELSE SameObject(ev.trace[i + 1].obj, ev.trace[i].obj)

\* a block, and the program, leave statements unevaluated only on a
\* ReturnValue or an Error
StopsOnlyOnReturnOrError ==
    /\ \A i \in Events :
           ExitOf(i, "BlockStatement") /\ ev.trace[i].rest > 0 =>
               ev.trace[i].obj.Type \in {RETURN_VALUE_OBJECT, ERROR_OBJ}
    /\ pc = "evaluated" /\ ev.idx <= Len(program) =>
           ev.trace[Len(ev.trace)].obj.Type \in {RETURN_VALUE_OBJECT, ERROR_OBJ}

\* C16: a ReturnValue produced by a return statement inside nested blocks
\* of a function body is passed up as it is by every enclosing block, which
\* evaluates none of its remaining statements, and is unwrapped once by the
\* invocation of the function (or by the program); what the call returns is
\* no ReturnValue, so the statements after the call are evaluated.
C16_NonLocalReturn ==
    /\ \A i \in Events : YieldsReturn(i) => ReturnGoesUp(i)
    /\ StopsOnlyOnReturnOrError

\* every if that yields a ReturnValue is the expression of an expression
\* statement: none is an operand, a condition, a callee, an argument or the
\* value of a let or of a return
ReturningIfsAreStatements ==
    \A i \in Events :
        YieldsReturn(i) /\ ev.trace[i].node = "IfExpression" =>
            i < Len(ev.trace) /\ ExitOf(i + 1, "ExpressionStatement")

\* C16, amended: the same, of the evaluations in which every if that yields
\* a ReturnValue stands as a statement of its block.
C16_NonLocalReturnOfStatements ==
    ReturningIfsAreStatements => C16_NonLocalReturn

\* the program went on after a call whose function returned from inside an
\* if: the ReturnValue of the return statement went through the block of
\* the if, the if, its statement and the body to the invocation
C16_Witness ==
    /\ pc = "evaluated"
    /\ ReturningIfsAreStatements
    /\ ev.idx > Len(program)
    /\ ev.result.Type = INTEGER_OBJ
    /\ \E i \in Events :
           /\ i + 5 < Len(ev.trace)
           /\ ExitOf(i, "ReturnStatement") /\ YieldsReturn(i)
           /\ ExitOf(i + 1, "BlockStatement") /\ ev.trace[i + 1].rest = 0
           /\ ExitOf(i + 2, "IfExpression")
           /\ ExitOf(i + 3, "ExpressionStatement")
           /\ ExitOf(i + 4, "BlockStatement") /\ ev.trace[i + 4].rest > 0
           /\ ExitOf(i + 5, "Function")
           /\ \E k \in Events : k > i + 5 /\ ev.trace[k].e = "enter"

\* C17: once the evaluation of a node yields an Error, no evaluation begins
\* any more: every evaluation around it returns that Error, and the
\* program's value is that Error.
C17_ErrorShortCircuit ==
    \A i \in Events :
        YieldsError(i) =>
            /\ \A j \in Events :
                   j > i => YieldsError(j) /\ ev.trace[j].obj = ev.trace[i].obj
            /\ pc = "evaluated"
            /\ isError(ev.result)
            /\ ev.result = ev.trace[i].obj

\* an Error went up from a statement of a function's body through the
\* invocation and the call to the program, which has statements left
C17_Witness ==
    /\ pc = "evaluated"
    /\ isError(ev.result)
    /\ ev.idx <= Len(program)
    /\ \E i \in Events :
           /\ YieldsError(i)
           /\ ev.trace[i].node = "Identifier"
           /\ \E j, k \in Events :
                  /\ i < j /\ j < k
                  /\ ExitOf(j, "BlockStatement") /\ ev.trace[j].rest > 0
                  /\ ExitOf(k, "Function")
                  /\ \E m \in Events : m > k /\ ExitOf(m, "InfixExpression")

\* the frames from env outwards
RECURSIVE EnvChain(_, _)
EnvChain(heap, env) ==
    IF env = NoEnv THEN <<>> ELSE <<env>> \o EnvChain(heap, heap[env].outer)

\* the names bound in some frame, and one bound in none
NamesOf(heap) ==
    UNION {DOMAIN heap[k].store : k \in 1..Len(heap)} \cup {<<"u">>}

\* get finds the binding of the first frame from env outwards that has one
GetFindsInnermost(heap) ==
    \A env \in 1..Len(heap) : \A name \in NamesOf(heap) :
        LET chain == EnvChain(heap, env)
            defining == {c \in 1..Len(chain) : name \in DOMAIN heap[chain[c]].store}
            found == get(heap, env, name)
        IN  IF defining = {}
            THEN ~found.ok
            ELSE /\ found.ok
                 /\ \E c \in defining :
                        /\ \A d \in defining : c <= d
                        /\ SameObject(found.obj, heap[chain[c]].store[name])

SameFrame(f, g) ==
    /\ f.outer = g.outer
    /\ DOMAIN f.store = DOMAIN g.store
    /\ \A name \in DOMAIN f.store : SameObject(f.store[name], g.store[name])

\* set binds the name in the frame of env and leaves every other frame,
\* and every other name of that frame, as it was
SetWritesInnermost(heap) ==
    \A env \in 1..Len(heap) : \A name \in NamesOf(heap) :
        LET after == set(heap, env, name, Null)
        IN  /\ Len(after) = Len(heap)
            /\ \A k \in 1..Len(heap) : k # env => SameFrame(after[k], heap[k])
            /\ after[env].outer = heap[env].outer
            /\ DOMAIN after[env].store = DOMAIN heap[env].store \cup {name}
            /\ after[env].store[name] = Null
            /\ \A n \in DOMAIN heap[env].store :
                   n # name => SameObject(after[env].store[n], heap[env].store[n])

\* the invocation of a function makes one frame, whose outer frame is the
\* environment the function captured, and leaves every environment there
\* was before it as it was
CallsLeaveEnvironments ==
    \A i \in Events :
        ExitOf(i, "Function") =>
            LET before == ev.trace[i].before
                after == ev.trace[i].after
                env == ev.trace[i].env
            IN  /\ env = Len(before) + 1
                /\ Len(after) >= env
                /\ after[env].outer \in 1..Len(before)
                /\ \A k \in 1..Len(before) : SameFrame(after[k], before[k])

\* C18: get(name) returns the binding of the innermost frame on the outer
\* chain that has one; set(name, value) changes the innermost frame only;
\* and a binding made inside a function call is in the frame of that call,
\* so that no environment that was there before the call (the captured one
\* and the calling one among them) sees it after the call.
C18_EnvironmentScoping ==
    /\ GetFindsInnermost(ev.heap)
    /\ SetWritesInnermost(ev.heap)
    /\ CallsLeaveEnvironments

\* a call has returned whose frame binds, by a let of the body, a name that
\* the program's environment binds to another value, before and after
C18_Witness ==
    \E i \in Events :
        /\ ExitOf(i, "Function")
        /\ \E name \in DOMAIN ev.trace[i].after[ev.trace[i].env].store :
               /\ name \in DOMAIN ev.trace[i].before[RootEnv].store
               /\ ~SameObject(ev.trace[i].after[ev.trace[i].env].store[name],
                              ev.trace[i].after[RootEnv].store[name])
               /\ SameObject(get(ev.heap, ev.trace[i].env, name).obj,
                             ev.trace[i].after[ev.trace[i].env].store[name])
               /\ SameObject(get(ev.heap, RootEnv, name).obj,
                             ev.trace[i].before[RootEnv].store[name])

\* the first byte from position i on that is no whitespace
RECURSIVE FirstNonSpace(_)
FirstNonSpace(i) == IF ByteAt(i) \in Whitespace THEN FirstNonSpace(i + 1) ELSE i

\* the kinds of the tokens that are runs of letters or of digits
RunKinds == {IDENT, INT, FUNCTION, TOK_LET, TOK_TRUE, TOK_FALSE, TOK_IF, TOK_ELSE, RETURN}

\* The call of NextToken at hand takes the bytes from the cursor to the
\* cursor after it: whitespace, and then the bytes of its token, which are
\* the token's lexeme (between two quotes for a String, the closing one
\* missing when the input ends first); an EOF is returned at the end of the
\* input only.  After a run of letters or digits the cursor is on the byte
\* that follows the run.
TokenTakesItsBytes ==
    LET start == FirstNonSpace(l.position)
        tok == toks'[Len(toks')]
        end == l'.position
    IN  /\ toks' = Append(toks, tok)
        /\ CASE tok.Type = TOK_STRING ->
                   /\ ByteAt(start) = Quote
                   /\ end = start + Len(tok.Literal) + 2
                   /\ tok.Literal = Slice(l.input, start + 1, end - 1)
                   /\ end <= Len(l.input) => ByteAt(end - 1) = Quote
             [] tok.Type = EOF ->
                   /\ tok.Literal = <<>>
                   /\ start >= Len(l.input)
             [] OTHER ->
                   /\ tok.Literal # <<>>
                   /\ end = start + Len(tok.Literal)
                   /\ tok.Literal = Slice(l.input, start, end)
        /\ tok.Type \in RunKinds =>
               /\ l'.ch = ByteAt(end)
               /\ l'.readPosition = end + 1
               /\ ByteAt(end) \notin (IF tok.Type = INT THEN Digits ELSE Letters)

\* C19, as claimed: after an identifier, a keyword or an Int token the next
\* token starts at the byte right after the run, and over any sequence of
\* calls of NextToken no byte but whitespace and the quotes of strings is
\* skipped and no byte is in two tokens.
C19_NoByteSkippedOrTwice == [][TokenTakesItsBytes]_vars

\* the statement of C19 on the inputs with no 0 byte, where it holds
C19_NoByteSkippedOrTwiceWithoutNul ==
    [][NUL \notin Bytes(l.input) => TokenTakesItsBytes]_vars

\* the node has every child the parser is to give it, and so has every node
\* under it: nil, a nil *LetStatement and a nil *BlockStatement are no node
\* (an if may be without Alternative)
RECURSIVE Complete(_)
CompleteAll(ns) == \A i \in 1..Len(ns) : Complete(ns[i])
Complete(n) ==
    CASE n.node = "LetStatement" -> Complete(n.Name) /\ Complete(n.Value)
      [] n.node = "ReturnStatement" -> Complete(n.ReturnValue)
      [] n.node = "ExpressionStatement" -> Complete(n.Expression)
      [] n.node = "PrefixExpression" -> Complete(n.Right)
      [] n.node = "InfixExpression" -> Complete(n.Left) /\ Complete(n.Right)
      [] n.node = "IfExpression" ->
            /\ Complete(n.Condition)
            /\ Complete(n.Consequence)
            /\ n.Alternative # NilBlock => Complete(n.Alternative)
      [] n.node = "BlockStatement" -> CompleteAll(n.Statements)
      [] n.node = "FunctionLiteral" -> CompleteAll(n.Parameters) /\ Complete(n.Body)
      [] n.node = "CallExpression" -> Complete(n.Function) /\ CompleteAll(n.Arguments)
      [] n.node \in {"Identifier", "IntegerLiteral", "Boolean", "StringLiteral"} -> TRUE
      [] OTHER -> FALSE

\* C20: when ParseProgram returns with no error, every node of the program
\* has its required children and String() of the program dereferences no
\* nil; and every turn of ParseProgram's loop whose statement is absent or
\* has a child absent records at least one error.
C20_NoAbsentChildWithoutError ==
    /\ [](pc = "done" /\ ErrorFree =>
              /\ CompleteAll(program)
              /\ "PANIC" \notin Bytes(ProgramString(program)))
    /\ [][(pc = "parsing" /\ pc' = "parsing" /\ ~Complete(Parsed.node)) =>
              Len(p'.errors) > Len(p.errors)]_vars

\* ParseProgram has returned without an error a program with a let, a
\* function literal with parameters and a body, an infix expression and a
\* call with arguments that are calls and infix expressions
C20_Witness ==
    /\ pc = "done"
    /\ ErrorFree
    /\ Len(program) = 2
    /\ CompleteAll(program)
    /\ {"LetStatement", "FunctionLiteral", "BlockStatement", "InfixExpression",
        "CallExpression", "ExpressionStatement"} \subseteq KindsOfAll(program)
    /\ Len(program[2].Expression.Arguments) = 2

\* the token the call of NextToken at hand returns
Returned == toks'[Len(toks')]

\* C21: NextToken returns an EOF token only with the cursor at or beyond the
\* end of the input (no byte but whitespace is left to scan), so that once
\* an EOF token has been returned every later call returns EOF too, and
\* nothing of the input is left unscanned at the first EOF, where
\* ParseProgram's loop stops.
C21_EofOnlyAtTheEnd ==
    /\ [](SawEof => l.position >= Len(l.input))
    /\ [][/\ Returned.Type = EOF => FirstNonSpace(l.position) >= Len(l.input)
          /\ (toks # <<>> /\ toks[Len(toks)].Type = EOF) => Returned.Type = EOF]_vars

\* the Identifier nodes of the tree under n
RECURSIVE Identifiers(_)
IdentifiersOfAll(ns) == UNION {Identifiers(ns[i]) : i \in 1..Len(ns)}
Identifiers(n) ==
    CASE n.node = "Identifier" -> {n}
      [] n.node = "LetStatement" -> Identifiers(n.Name) \cup Identifiers(n.Value)
      [] n.node = "ReturnStatement" -> Identifiers(n.ReturnValue)
      [] n.node = "ExpressionStatement" -> Identifiers(n.Expression)
      [] n.node = "PrefixExpression" -> Identifiers(n.Right)
      [] n.node = "InfixExpression" -> Identifiers(n.Left) \cup Identifiers(n.Right)
      [] n.node = "IfExpression" ->
            Identifiers(n.Condition) \cup Identifiers(n.Consequence)
                \cup Identifiers(n.Alternative)
      [] n.node = "BlockStatement" -> IdentifiersOfAll(n.Statements)
      [] n.node = "FunctionLiteral" ->
            IdentifiersOfAll(n.Parameters) \cup Identifiers(n.Body)
      [] n.node = "CallExpression" ->
            Identifiers(n.Function) \cup IdentifiersOfAll(n.Arguments)
      [] OTHER -> {}

\* the input is a function literal whose parameter list has a word that is
\* no identifier
HasNonIdentParameter ==
    \E ws \in SeqsUpTo(ParamWords, MaxParams) :
        /\ l.input = ParamSrc(ws)
        /\ \E i \in 1..Len(ws) : LookupIdentifier(ws[i]) # IDENT \/ ~isLetter(ws[i][1])

\* C22: every Identifier node of the program (the name of a let, an
\* identifier expression, a parameter of a function literal) holds a token
\* of type IDENT, and ParseProgram returns with an error on a function
\* literal whose parameter list has a token that is no identifier, such as
\* `fn(1, +) {}`.
C22_IdentifiersFromIdent ==
    /\ \A n \in IdentifiersOfAll(program) : n.Token.Type = IDENT
    /\ (pc = "done" /\ HasNonIdentParameter) => ~ErrorFree

\* C23: for an Int token whose digit run, read as a decimal numeral, is
\* within the range of int64, parseIntegerLiteral records no error and
\* returns an IntegerLiteral whose value is that decimal value, leading
\* zeros or not (`010` is 10, `08` is 8).  Stated of parseIntegerLiteral
\* called on the Int token a statement begins with.
C23_DecimalValue ==
    (pc = "parsing" /\ curTokenIs(p, INT) /\ ~AboveInt64(p.curToken.Literal)) =>
        /\ parseIntegerLiteral(p).p.errors = p.errors
        /\ parseIntegerLiteral(p).node.node = "IntegerLiteral"
        /\ parseIntegerLiteral(p).node.Value = stripZeros(p.curToken.Literal)

\* C24: on every input and over any number of calls of NextToken, calls
\* after EOF among them, every index and every slice the lexer takes of the
\* input is in range (0 <= start <= end <= len(input)): no call panics, and
\* the cursor and the byte held are those of a position of the input or of
\* its end.
C24_NoOutOfRange ==
    /\ ~l.panicked
    /\ 0 <= l.position /\ l.readPosition = l.position + 1
    /\ l.ch = ByteAt(l.position)

\* the input ends inside a string without its closing quote: the String
\* token took the slice up to len(input), and two calls after it returned
\* EOF with the cursor beyond the end
C24_Witness ==
    /\ l.input = <<Quote, "a">>
    /\ toks = <<Token(TOK_STRING, <<"a">>), Token(EOF, <<>>), Token(EOF, <<>>)>>
    /\ l.position > Len(l.input)
    /\ ~l.panicked

====
